---- MODULE Spec2Model ----
(***************************************************************************)
(* ArcMiner: the claim ledger reconciler (server/routes.ts and             *)
(* server/storage.ts) and the mining session engine (the App component,    *)
(* in its two sources: part_002, with devices, log and stop warning, and   *)
(* part_000, with the pause dialog).                                       *)
(*                                                                         *)
(* Strings are TLA+ strings; a JSON object is a function from its field    *)
(* names, and a field that is missing is missing from the DOMAIN.  JSON    *)
(* null is the reserved string Null.                                       *)
(***************************************************************************)
EXTENDS Integers, Sequences, FiniteSets, TLC

VARIABLES
    claimHistory,   \* MemStorage.claimHistory: the Map's values in insertion order
    serverClock,    \* the server's Date.now(), in ms
    pending,        \* the feed-backed request whose fetch is in flight, or "none"
    req,            \* the request the server answered last
    resp            \* the response it gave: [status, body, source, fetched]

VARIABLES
    miningState,      \* "idle", "mining", "paused" or "completed"
    progress,         \* in 1/6000 of a percent: one unit for each ms of mining
    timeLeft,         \* ms
    hashRate,
    pausedProgress,   \* as progress
    pausedTimeLeft,   \* ms
    showStopWarning,
    cpuEnabled,
    gpuEnabled,
    miningLogs,       \* the type of each MiningLog, oldest first
    blocksFound,
    sharesFound,
    canFindShares,
    displayedReward,  \* in thirds of a USDC
    timer,            \* the mining effect's closure and its two intervals
    clientNow,        \* the browser's Date.now(), in ms
    toast,            \* the title of the most recent toast, "" before the first
    address,          \* useAccount().address, NoAddress when not connected
    writeStatus,      \* useWriteContract(): "idle", "pending", "success" or "error"
    hash,             \* useWriteContract().data, NoHash when undefined
    isConfirmed,      \* useWaitForTransactionReceipt({ hash }).isSuccess
    receiptFailed,    \* the receipt query of hash ended in an error
    claimed,          \* the faucet's claimInfo(a)[0] of each wallet a, in millionths
    txFrom,           \* the wallet that signed hash
    superseded,       \* claim requests whose wallet prompt was still open when
                      \*     writeContract was called again: the hook no longer
                      \*     follows them
    reported          \* the bodies handed to createClaimMutation.mutate, oldest first

VARIABLES
    app0              \* the state of the App component of part_000, a record

serverVars == <<claimHistory, serverClock, pending, req, resp>>

sessionVars ==
    <<miningState, progress, timeLeft, hashRate, pausedProgress, pausedTimeLeft,
      showStopWarning, cpuEnabled, gpuEnabled, miningLogs, blocksFound, sharesFound,
      canFindShares, displayedReward, timer, toast>>

walletVars ==
    <<address, writeStatus, hash, isConfirmed, receiptFailed, claimed, txFrom, superseded,
      reported>>

clientVars == <<sessionVars, clientNow, walletVars>>

vars == <<serverVars, clientVars, app0>>

(***************************************************************************)
(* Bounds of the model.                                                    *)
(***************************************************************************)
MaxClaims == 2          \* entries the local storage may hold
MaxServerClock == 1     \* the server clock runs over 0..MaxServerClock
Quantum == 300000       \* the browser clock is read at q * Quantum ms and one tick
MaxQuanta == 2          \*     later, q in 0..MaxQuanta
MaxLogs == 5            \* log lines a session may hold before a decorative one is added
MaxReports == 2         \* claims the client reports to the server
MaxSuperseded == 1      \* claim requests left behind by a repeated click

(***************************************************************************)
(* JavaScript string and number helpers.                                   *)
(***************************************************************************)
Null == "<null>"

UpperLetters == "ABCDEFGHIJKLMNOPQRSTUVWXYZ"
LowerLetters == "abcdefghijklmnopqrstuvwxyz"
DigitChars == "0123456789"

CharAt(s, i) == SubSeq(s, i, i)

CharsOf(s) == {CharAt(s, i) : i \in 1..Len(s)}

\* The position of character c in s, 0 when it does not occur.
IndexOf(s, c) ==
    IF c \in CharsOf(s) THEN CHOOSE i \in 1..Len(s) : CharAt(s, i) = c ELSE 0

LowerOf ==
    [c \in CharsOf(UpperLetters) |-> CharAt(LowerLetters, IndexOf(UpperLetters, c))]

RECURSIVE ToLowerCase(_)
ToLowerCase(s) ==
    IF s = "" THEN ""
    ELSE LET c == Head(s)
         IN  (IF c \in DOMAIN LowerOf THEN LowerOf[c] ELSE c) \o ToLowerCase(Tail(s))

DigitValue == [c \in CharsOf(DigitChars) |-> IndexOf(DigitChars, c) - 1]

IsDigits(s) == s # "" /\ \A i \in 1..Len(s) : CharAt(s, i) \in DOMAIN DigitValue

RECURSIVE DigitsToInt(_, _)
DigitsToInt(s, acc) ==
    IF s = "" THEN acc ELSE DigitsToInt(Tail(s), acc * 10 + DigitValue[Head(s)])

\* The longest prefix of s made of decimal digits.
RECURSIVE DigitPrefix(_)
DigitPrefix(s) ==
    IF s = "" \/ Head(s) \notin DOMAIN DigitValue THEN ""
    ELSE Head(s) \o DigitPrefix(Tail(s))

RECURSIVE Pow10(_)
Pow10(n) == IF n <= 0 THEN 1 ELSE 10 * Pow10(n - 1)

RECURSIVE PadStart(_, _)
PadStart(s, n) == IF Len(s) >= n THEN s ELSE PadStart("0" \o s, n)

\* parseInt(s): an optional sign and the leading decimal digits; NaN without any.
ParseIntBody(s) == IF s # "" /\ Head(s) \in {"+", "-"} THEN Tail(s) ELSE s

ParseIntIsNaN(s) == DigitPrefix(ParseIntBody(s)) = ""

ParseIntValue(s) ==
    LET n == DigitsToInt(DigitPrefix(ParseIntBody(s)), 0)
    IN  IF s # "" /\ Head(s) = "-" THEN 0 - n ELSE n

\* BigInt(s) of a string: "" is 0n, an optionally signed run of decimal digits is
\* its value, anything else throws a SyntaxError.
BigIntParses(s) == s = "" \/ IsDigits(ParseIntBody(s))

BigIntValue(s) ==
    IF s = "" THEN 0
    ELSE LET n == DigitsToInt(ParseIntBody(s), 0)
         IN  IF Head(s) = "-" THEN 0 - n ELSE n

\* A JavaScript number: NaN, or a value kept in millionths (micro); the feeds of
\* the model only hold values that millionths represent exactly.
NaN == [nan |-> TRUE, micro |-> 0]

Micro(m) == [nan |-> FALSE, micro |-> m]

MicroDigits == 6

\* Number(v) / Math.pow(10, decimals), decimals the result of parseInt.
DivPow10(v, decimalsIsNaN, decimals) ==
    IF decimalsIsNaN THEN NaN
    ELSE IF decimals >= MicroDigits THEN Micro(v \div Pow10(decimals - MicroDigits))
    ELSE Micro(v * Pow10(MicroDigits - decimals))

NumAdd(a, b) == IF a.nan \/ b.nan THEN NaN ELSE Micro(a.micro + b.micro)

\* Number.prototype.toFixed(digits) for digits <= 6 and x >= 0: x rounded to that
\* many fractional digits, the larger neighbour on a tie.
ToFixed(x, digits) ==
    IF x.nan THEN "NaN"
    ELSE LET unit == Pow10(MicroDigits - digits)
             n == (x.micro + (unit \div 2)) \div unit
         IN  ToString(n \div Pow10(digits)) \o "."
                 \o PadStart(ToString(n % Pow10(digits)), digits)

\* new Date(ms).toISOString() for a time of 1 January 1970.
ToISOString(ms) ==
    "1970-01-01T" \o PadStart(ToString(ms \div 3600000), 2)
        \o ":" \o PadStart(ToString((ms \div 60000) % 60), 2)
        \o ":" \o PadStart(ToString((ms \div 1000) % 60), 2)
        \o "." \o PadStart(ToString(ms % 1000), 3) \o "Z"

\* String.prototype.slice(0, n)
SliceTo(s, n) == SubSeq(s, 1, IF Len(s) < n THEN Len(s) ELSE n)

(***************************************************************************)
(* The App component: constants.                                           *)
(***************************************************************************)
SessionMs == 600000            \* useState(600000), pausedTimeLeft || 600000
TickMs == 100                  \* setInterval(..., 100)
LogTimerMs == 800              \* setInterval(..., 800)
LogKeep == 50                  \* prev.slice(-50)
MAX_CLAIM_LIMIT == 2000 * 1000000
ClaimUnits == 200 * 1000000    \* what one claim pays, in millionths

Hundred == SessionMs           \* progress 100
Reward(usdc) == 3 * usdc       \* displayedReward of a whole number of USDC
ShareIncrement == 1            \* (200 / 100) * (100 / 600): a third of a USDC

NoAddress == "<undefined>"
NoHash == "<undefined>"

Min(a, b) == IF a < b THEN a ELSE b
Max(a, b) == IF a > b THEN a ELSE b

getHashRateRange(cpu, gpu) ==
    IF cpu /\ gpu THEN [min |-> 400, max |-> 700]
    ELSE IF gpu THEN [min |-> 300, max |-> 500]
    ELSE IF cpu THEN [min |-> 100, max |-> 200]
    ELSE [min |-> 0, max |-> 0]

\* range.min + Math.random() * (range.max - range.min), the random number in percent
RandomHashRate(range, percent) == range.min + (percent * (range.max - range.min)) \div 100

\* Math.random() of the progress timer and of the log timer, in percent.
TickRandoms == {50}
LogRandoms == {10, 30, 50, 80}

\* setMiningLogs(prev => [...prev.slice(-50), newLog])
addLog(logs, type) ==
    Append(SubSeq(logs, Max(1, Len(logs) - LogKeep + 1), Len(logs)), type)

Addresses == {"0xA11ce", "0xB0b"}

\* claimData ? claimData[0] : BigInt(0)
totalClaimed == IF address \in Addresses THEN claimed[address] ELSE 0

hasReachedLimit == totalClaimed >= MAX_CLAIM_LIMIT
isConnected == address # NoAddress
isConfirming == hash # NoHash /\ ~isConfirmed /\ ~receiptFailed

(***************************************************************************)
(* The mining effect, useEffect(..., [miningState, pausedProgress,         *)
(* pausedTimeLeft, cpuEnabled, gpuEnabled]).  A callback's state updates   *)
(* are committed, and the effects they trigger are run, before the next    *)
(* callback runs: Render is the end of every step.                         *)
(***************************************************************************)
NoTimer ==
    [tickOn |-> FALSE, logOn |-> FALSE, startTime |-> 0, initialProgress |-> 0,
     remainingTime |-> 0, endTime |-> 0, range |-> [min |-> 0, max |-> 0],
     tickDue |-> 0, logDue |-> 0]

\* pausedTimeLeft || 60000
EffectRemainingTimeShort(ptl) == IF ptl # 0 THEN ptl ELSE 60000

\* 600000, whatever pausedTimeLeft holds
EffectRemainingTimeFull(ptl) == SessionMs

\* pausedTimeLeft || 600000
EffectRemainingTime(ptl) == IF ptl # 0 THEN ptl ELSE SessionMs

EffectTimer(pp, ptl, cpu, gpu, now) ==
    [tickOn |-> TRUE, logOn |-> TRUE, startTime |-> now, initialProgress |-> pp,
     remainingTime |-> EffectRemainingTime(ptl),
     endTime |-> now + EffectRemainingTime(ptl),
     range |-> getHashRateRange(cpu, gpu),
     tickDue |-> now + TickMs, logDue |-> now + LogTimerMs]

EffectLogs(logs, pp) ==
    IF Len(logs) = 0 \/ pp = 0
    THEN addLog(addLog(addLog(logs, "info"), "info"), "info")
    ELSE logs

\* A mining effect that leaves without one: its timer is still set
\* (return () => {} for the cleanup).
EffectCleanupKeepsTimers(tmr) == tmr

\* A cleanup that clears the progress timer only
\* (return () => clearInterval(timer)).
EffectCleanupLeavesLogTimer(tmr) == [tmr EXCEPT !.tickOn = FALSE]

\* return () => { clearInterval(timer); clearInterval(logTimer); }
EffectCleanup(tmr) == NoTimer

\* The render that ends a step: the new values of the effect's dependencies, the
\* log and the intervals as the callback left them, then the effect's cleanup and
\* the effect itself when a dependency has changed.
Render(ms, pp, ptl, cpu, gpu, logs, tmr) ==
    /\ miningState' = ms
    /\ pausedProgress' = pp
    /\ pausedTimeLeft' = ptl
    /\ cpuEnabled' = cpu
    /\ gpuEnabled' = gpu
    /\ IF <<ms, pp, ptl, cpu, gpu>> =
              <<miningState, pausedProgress, pausedTimeLeft, cpuEnabled, gpuEnabled>>
       THEN timer' = tmr /\ miningLogs' = logs
       ELSE IF ms = "mining"
            THEN /\ timer' = EffectTimer(pp, ptl, cpu, gpu, clientNow)
                 /\ miningLogs' = EffectLogs(logs, pp)
            ELSE /\ timer' = EffectCleanup(tmr)
                 /\ miningLogs' = logs

\* A render that changes none of the effect's dependencies.
SameRender ==
    Render(miningState, pausedProgress, pausedTimeLeft, cpuEnabled, gpuEnabled,
           miningLogs, timer)

ClientInit ==
    /\ miningState = "idle"
    /\ progress = 0
    /\ timeLeft = SessionMs
    /\ hashRate = 0
    /\ pausedProgress = 0
    /\ pausedTimeLeft = 0
    /\ showStopWarning = FALSE
    /\ cpuEnabled = TRUE
    /\ gpuEnabled = FALSE
    /\ miningLogs = <<>>
    /\ blocksFound = 0
    /\ sharesFound = 0
    /\ canFindShares = FALSE
    /\ displayedReward = 0
    /\ timer = NoTimer
    /\ clientNow = 0
    /\ toast = ""
    /\ address = "0xA11ce"
    /\ writeStatus = "idle"
    /\ hash = NoHash
    /\ isConfirmed = FALSE
    /\ receiptFailed = FALSE
    /\ claimed = [a \in Addresses |-> IF a = "0xA11ce" THEN 0 ELSE MAX_CLAIM_LIMIT]
    /\ txFrom = NoAddress
    /\ superseded = 0
    /\ reported = <<>>

(***************************************************************************)
(* The App component: the mining session's callbacks.  A button's callback *)
(* runs only while the button is rendered and enabled.                     *)
(***************************************************************************)
ClockGrid == {q * Quantum + f : q \in 0..MaxQuanta, f \in {0, TickMs}}

\* Time passes in the browser.
Pass ==
    /\ \E t \in ClockGrid : t > clientNow /\ clientNow' = t
    /\ UNCHANGED <<sessionVars, walletVars>>

\* Math.min(100, (elapsed / 600000) * 100), without the initial progress
TickProgressFromZero(initialProgress, elapsed) == Min(Hundred, elapsed)

\* Math.min(100, initialProgress + (elapsed / 600000) * 100): in units of 1/6000
\* of a percent the additional progress of elapsed ms is elapsed.
TickProgress(initialProgress, elapsed) == Min(Hundred, initialProgress + elapsed)

\* The callback of setInterval(..., 100).
Tick ==
    /\ timer.tickOn
    /\ clientNow >= timer.tickDue
    /\ LET remaining == Max(0, timer.endTime - clientNow)
           elapsed == timer.remainingTime - remaining
       IN /\ timeLeft' = remaining
          /\ \E r \in TickRandoms : hashRate' = RandomHashRate(timer.range, r)
          /\ IF remaining <= 0
             THEN /\ progress' = Hundred
                  /\ displayedReward' = Reward(200)
                  /\ toast' = "Mining Complete!"
                  /\ Render("completed", pausedProgress, pausedTimeLeft, cpuEnabled,
                            gpuEnabled, addLog(miningLogs, "reward"),
                            [timer EXCEPT !.tickOn = FALSE])
             ELSE /\ progress' = TickProgress(timer.initialProgress, elapsed)
                  /\ Render(miningState, pausedProgress, pausedTimeLeft, cpuEnabled,
                            gpuEnabled, miningLogs,
                            [timer EXCEPT !.tickDue = clientNow + TickMs])
                  /\ UNCHANGED <<displayedReward, toast>>
    /\ UNCHANGED <<showStopWarning, blocksFound, sharesFound, canFindShares, clientNow,
                   walletVars>>

\* The log timer with the share branch taken whether or not a block was found
LogTickUngated ==
    /\ timer.logOn
    /\ clientNow >= timer.logDue
    /\ \E rand \in LogRandoms :
         LET rearmed == [timer EXCEPT !.logDue = clientNow + LogTimerMs]
             logsAs(logs) ==
                 Render(miningState, pausedProgress, pausedTimeLeft, cpuEnabled,
                        gpuEnabled, logs, rearmed)
         IN IF rand < 15
            THEN /\ Len(miningLogs) < MaxLogs
                 /\ logsAs(addLog(miningLogs, "block"))
                 /\ blocksFound' = blocksFound + 1
                 /\ canFindShares' = TRUE
                 /\ UNCHANGED <<sharesFound, displayedReward>>
            ELSE IF rand < 45
            THEN IF TRUE
                 THEN /\ Len(miningLogs) < MaxLogs
                      /\ logsAs(addLog(miningLogs, "share"))
                      /\ sharesFound' = sharesFound + 1
                      /\ displayedReward' = Min(Reward(200), displayedReward + ShareIncrement)
                      /\ UNCHANGED <<blocksFound, canFindShares>>
                 ELSE /\ logsAs(miningLogs)
                      /\ UNCHANGED <<blocksFound, sharesFound, canFindShares, displayedReward>>
            ELSE IF rand < 60
            THEN /\ Len(miningLogs) < MaxLogs
                 /\ logsAs(addLog(miningLogs, "info"))
                 /\ UNCHANGED <<blocksFound, sharesFound, canFindShares, displayedReward>>
            ELSE /\ logsAs(miningLogs)
                 /\ UNCHANGED <<blocksFound, sharesFound, canFindShares, displayedReward>>
    /\ UNCHANGED <<progress, timeLeft, hashRate, showStopWarning, toast, clientNow,
                   walletVars>>

\* The callback of setInterval(..., 800).
LogTick ==
    /\ timer.logOn
    /\ clientNow >= timer.logDue
    /\ \E rand \in LogRandoms :
         LET rearmed == [timer EXCEPT !.logDue = clientNow + LogTimerMs]
             logsAs(logs) ==
                 Render(miningState, pausedProgress, pausedTimeLeft, cpuEnabled,
                        gpuEnabled, logs, rearmed)
         IN IF rand < 15
            THEN /\ Len(miningLogs) < MaxLogs
                 /\ logsAs(addLog(miningLogs, "block"))
                 /\ blocksFound' = blocksFound + 1
                 /\ canFindShares' = TRUE
                 /\ UNCHANGED <<sharesFound, displayedReward>>
            ELSE IF rand < 45
            THEN IF canFindShares
                 THEN /\ Len(miningLogs) < MaxLogs
                      /\ logsAs(addLog(miningLogs, "share"))
                      /\ sharesFound' = sharesFound + 1
                      /\ displayedReward' = Min(Reward(200), displayedReward + ShareIncrement)
                      /\ UNCHANGED <<blocksFound, canFindShares>>
                 ELSE /\ logsAs(miningLogs)
                      /\ UNCHANGED <<blocksFound, sharesFound, canFindShares, displayedReward>>
            ELSE IF rand < 60
            THEN /\ Len(miningLogs) < MaxLogs
                 /\ logsAs(addLog(miningLogs, "info"))
                 /\ UNCHANGED <<blocksFound, sharesFound, canFindShares, displayedReward>>
            ELSE /\ logsAs(miningLogs)
                 /\ UNCHANGED <<blocksFound, sharesFound, canFindShares, displayedReward>>
    /\ UNCHANGED <<progress, timeLeft, hashRate, showStopWarning, toast, clientNow,
                   walletVars>>

\* startMining without its two checks
startMiningUnchecked ==
    /\ isConnected
    /\ miningState = "idle"
    /\ Render("mining", 0, 0, cpuEnabled, gpuEnabled, <<>>, timer)
    /\ timeLeft' = SessionMs
    /\ progress' = 0
    /\ displayedReward' = 0
    /\ blocksFound' = 0
    /\ sharesFound' = 0
    /\ canFindShares' = FALSE
    /\ UNCHANGED <<toast, hashRate, showStopWarning, clientNow, walletVars>>

\* startMining without setTimeLeft(600000)
startMiningKeepsTimeLeft ==
    /\ isConnected
    /\ miningState = "idle"
    /\ IF hasReachedLimit
       THEN /\ toast' = "Limit Reached"
            /\ SameRender
            /\ UNCHANGED <<progress, displayedReward, blocksFound, sharesFound,
                           canFindShares>>
       ELSE IF ~cpuEnabled /\ ~gpuEnabled
       THEN /\ toast' = "No Mining Device"
            /\ SameRender
            /\ UNCHANGED <<progress, displayedReward, blocksFound, sharesFound,
                           canFindShares>>
       ELSE /\ Render("mining", 0, 0, cpuEnabled, gpuEnabled, <<>>, timer)
            /\ progress' = 0
            /\ displayedReward' = 0
            /\ blocksFound' = 0
            /\ sharesFound' = 0
            /\ canFindShares' = FALSE
            /\ UNCHANGED toast
    /\ UNCHANGED <<timeLeft, hashRate, showStopWarning, clientNow, walletVars>>

\* The handler of the start button, as it runs in any state.
startMiningBody ==
    /\ IF hasReachedLimit
       THEN /\ toast' = "Limit Reached"
            /\ SameRender
            /\ UNCHANGED <<progress, timeLeft, displayedReward, blocksFound, sharesFound,
                           canFindShares>>
       ELSE IF ~cpuEnabled /\ ~gpuEnabled
       THEN /\ toast' = "No Mining Device"
            /\ SameRender
            /\ UNCHANGED <<progress, timeLeft, displayedReward, blocksFound, sharesFound,
                           canFindShares>>
       ELSE /\ Render("mining", 0, 0, cpuEnabled, gpuEnabled, <<>>, timer)
            /\ timeLeft' = SessionMs
            /\ progress' = 0
            /\ displayedReward' = 0
            /\ blocksFound' = 0
            /\ sharesFound' = 0
            /\ canFindShares' = FALSE
            /\ UNCHANGED toast
    /\ UNCHANGED <<hashRate, showStopWarning, clientNow, walletVars>>

\* The start button is rendered in idle only.
startMining ==
    /\ isConnected
    /\ miningState = "idle"
    /\ startMiningBody

\* A pause that takes the progress the mining effect started from, not the
\* progress of the last tick.
pauseMiningBodyStaleProgress ==
    /\ Len(miningLogs) < MaxLogs
    /\ Render("paused", timer.initialProgress, timeLeft, cpuEnabled, gpuEnabled,
              addLog(miningLogs, "info"), timer)
    /\ UNCHANGED <<progress, timeLeft, hashRate, showStopWarning, blocksFound, sharesFound,
                   canFindShares, displayedReward, toast, clientNow, walletVars>>

\* The handler of the pause button, as it runs in any state.
pauseMiningBody ==
    /\ Len(miningLogs) < MaxLogs
    /\ Render("paused", progress, timeLeft, cpuEnabled, gpuEnabled,
              addLog(miningLogs, "info"), timer)
    /\ UNCHANGED <<progress, timeLeft, hashRate, showStopWarning, blocksFound, sharesFound,
                   canFindShares, displayedReward, toast, clientNow, walletVars>>

\* The pause button is rendered in mining only.
pauseMining ==
    /\ isConnected
    /\ miningState = "mining"
    /\ pauseMiningBody

\* The handler of the continue button, as it runs in any state.
continueMiningBody ==
    /\ Len(miningLogs) < MaxLogs
    /\ Render("mining", pausedProgress, pausedTimeLeft, cpuEnabled, gpuEnabled,
              addLog(miningLogs, "info"), timer)
    /\ UNCHANGED <<progress, timeLeft, hashRate, showStopWarning, blocksFound, sharesFound,
                   canFindShares, displayedReward, toast, clientNow, walletVars>>

\* The continue button is rendered in paused only.
continueMining ==
    /\ isConnected
    /\ miningState = "paused"
    /\ continueMiningBody

openStopWarning ==
    /\ isConnected
    /\ miningState \in {"mining", "paused"}
    /\ showStopWarning' = TRUE
    /\ SameRender
    /\ UNCHANGED <<progress, timeLeft, hashRate, blocksFound, sharesFound, canFindShares,
                   displayedReward, toast, clientNow, walletVars>>

\* confirmStop without setTimeLeft(600000)
confirmStopKeepsTimeLeft ==
    /\ showStopWarning
    /\ showStopWarning' = FALSE
    /\ Render("idle", 0, 0, cpuEnabled, gpuEnabled, <<>>, timer)
    /\ progress' = 0
    /\ displayedReward' = 0
    /\ blocksFound' = 0
    /\ sharesFound' = 0
    /\ canFindShares' = FALSE
    /\ toast' = "Mining Stopped"
    /\ UNCHANGED <<timeLeft, hashRate, clientNow, walletVars>>

\* confirmStop without setDisplayedReward(0)
confirmStopKeepsReward ==
    /\ showStopWarning
    /\ showStopWarning' = FALSE
    /\ Render("idle", 0, 0, cpuEnabled, gpuEnabled, <<>>, timer)
    /\ progress' = 0
    /\ timeLeft' = SessionMs
    /\ blocksFound' = 0
    /\ sharesFound' = 0
    /\ canFindShares' = FALSE
    /\ toast' = "Mining Stopped"
    /\ UNCHANGED <<displayedReward, hashRate, clientNow, walletVars>>

confirmStop ==
    /\ showStopWarning
    /\ showStopWarning' = FALSE
    /\ Render("idle", 0, 0, cpuEnabled, gpuEnabled, <<>>, timer)
    /\ progress' = 0
    /\ timeLeft' = SessionMs
    /\ displayedReward' = 0
    /\ blocksFound' = 0
    /\ sharesFound' = 0
    /\ canFindShares' = FALSE
    /\ toast' = "Mining Stopped"
    /\ UNCHANGED <<hashRate, clientNow, walletVars>>

\* A cancel button wired to confirmStop.
cancelStopWarningStops == confirmStop

\* The dialog's cancel button, and onOpenChange(false).
cancelStopWarning ==
    /\ showStopWarning
    /\ showStopWarning' = FALSE
    /\ SameRender
    /\ UNCHANGED <<progress, timeLeft, hashRate, blocksFound, sharesFound, canFindShares,
                   displayedReward, toast, clientNow, walletVars>>

\* disabled={miningState === 'mining' || miningState === 'paused'}
devicesLocked == miningState = "mining" \/ miningState = "paused"

\* The CPU button without its disabled attribute
ToggleCpuUnlocked ==
    /\ isConnected
    /\ Render(miningState, pausedProgress, pausedTimeLeft, ~cpuEnabled, gpuEnabled,
              miningLogs, timer)
    /\ UNCHANGED <<progress, timeLeft, hashRate, showStopWarning, blocksFound, sharesFound,
                   canFindShares, displayedReward, toast, clientNow, walletVars>>

\* onClick={() => setCpuEnabled(!cpuEnabled)}
ToggleCpu ==
    /\ isConnected
    /\ ~devicesLocked
    /\ Render(miningState, pausedProgress, pausedTimeLeft, ~cpuEnabled, gpuEnabled,
              miningLogs, timer)
    /\ UNCHANGED <<progress, timeLeft, hashRate, showStopWarning, blocksFound, sharesFound,
                   canFindShares, displayedReward, toast, clientNow, walletVars>>

\* onClick={() => setGpuEnabled(!gpuEnabled)}
ToggleGpu ==
    /\ isConnected
    /\ ~devicesLocked
    /\ Render(miningState, pausedProgress, pausedTimeLeft, cpuEnabled, ~gpuEnabled,
              miningLogs, timer)
    /\ UNCHANGED <<progress, timeLeft, hashRate, showStopWarning, blocksFound, sharesFound,
                   canFindShares, displayedReward, toast, clientNow, walletVars>>

(***************************************************************************)
(* The App component: the claim.  The wallet, the chain and the faucet are *)
(* the hooks' side of useAccount, useWriteContract,                        *)
(* useWaitForTransactionReceipt and useReadContract.                       *)
(***************************************************************************)
\* The body of the effect of [isConfirmed, hash, address].
ClaimConfirmed(addr, h) ==
    /\ reported' = Append(reported, [walletAddress |-> addr, amount |-> "200.000000",
                                     transactionHash |-> h])
    /\ toast' = "Claim Successful!"
    /\ Render("idle", 0, 0, cpuEnabled, gpuEnabled, <<>>, timer)
    /\ displayedReward' = 0
    /\ progress' = 0
    /\ canFindShares' = FALSE
    /\ blocksFound' = 0
    /\ sharesFound' = 0
    /\ UNCHANGED <<timeLeft, hashRate, showStopWarning>>

\* The effects of [isConfirmed, hash, address] and of [writeError] after a render
\* with the given values of the hooks.
WalletEffects(confirmed, h, addr, status) ==
    IF /\ <<confirmed, h, addr>> # <<isConfirmed, hash, address>>
       /\ confirmed
       /\ h # NoHash
       /\ addr # NoAddress
    THEN ClaimConfirmed(addr, h)
    ELSE /\ toast' = IF status = "error" /\ writeStatus # "error" THEN "Claim Failed" ELSE toast
         /\ SameRender
         /\ UNCHANGED <<progress, timeLeft, hashRate, showStopWarning, blocksFound,
                        sharesFound, canFindShares, displayedReward, reported>>

\* writeContract({ functionName: "claim" }): the wallet asks the user to sign.
\* The handler of the claim button, as it runs in any state.
handleClaimBody ==
    /\ isConnected
    /\ writeStatus = "pending" => superseded < MaxSuperseded
    /\ superseded' = IF writeStatus = "pending" THEN superseded + 1 ELSE superseded
    /\ writeStatus' = "pending"
    /\ hash' = NoHash
    /\ isConfirmed' = FALSE
    /\ receiptFailed' = FALSE
    /\ WalletEffects(FALSE, NoHash, address, "pending")
    /\ UNCHANGED <<address, claimed, txFrom, clientNow>>

\* The claim button is rendered in completed only, and disabled while the
\* receipt is awaited.
handleClaim ==
    /\ miningState = "completed"
    /\ ~isConfirming
    /\ handleClaimBody

\* The user signs: the transaction is sent and the hook has its hash, which no
\* reported transaction has.
WalletSigns ==
    /\ writeStatus = "pending"
    /\ superseded = 0
    /\ isConnected
    /\ writeStatus' = "success"
    /\ hash' = "0x7a" \o ToString(Len(reported) + 1)
    /\ txFrom' = address
    /\ WalletEffects(isConfirmed, hash', address, "success")
    /\ UNCHANGED <<address, isConfirmed, receiptFailed, claimed, superseded, clientNow>>

\* The user rejects, or the wallet fails: writeError.
WalletRejects ==
    /\ writeStatus = "pending"
    /\ superseded = 0
    /\ writeStatus' = "error"
    /\ WalletEffects(isConfirmed, hash, address, "error")
    /\ UNCHANGED <<address, hash, isConfirmed, receiptFailed, claimed, txFrom,
                   superseded, clientNow>>

\* The receipt of hash arrives: the faucet has paid the signer, which it does
\* only within the wallet's lifetime cap.
TxConfirmed ==
    /\ isConfirming
    /\ claimed[txFrom] <= MAX_CLAIM_LIMIT - ClaimUnits
    /\ isConfirmed' = TRUE
    /\ claimed' = [claimed EXCEPT ![txFrom] = @ + ClaimUnits]
    /\ Len(reported) < MaxReports
    /\ WalletEffects(TRUE, hash, address, writeStatus)
    /\ UNCHANGED <<address, writeStatus, hash, receiptFailed, txFrom, superseded,
                   clientNow>>

\* The transaction reverts, or its receipt cannot be had.
TxFails ==
    /\ isConfirming
    /\ receiptFailed' = TRUE
    /\ WalletEffects(isConfirmed, hash, address, writeStatus)
    /\ UNCHANGED <<address, writeStatus, hash, isConfirmed, claimed, txFrom,
                   superseded, clientNow>>

\* A request the hook no longer follows ends: the user rejects it, or signs it
\* and its transaction is mined or reverts.  No outcome reaches the component:
\* no hash, no error, no report.  The wallet shows its requests in the order they
\* came, so these end before the request the hook follows is signed or
\* rejected.  What such a transaction pays is not counted in claimed.
SupersededEnds ==
    /\ superseded > 0
    /\ superseded' = superseded - 1
    /\ UNCHANGED <<sessionVars, clientNow, address, writeStatus, hash, isConfirmed,
                   receiptFailed, claimed, txFrom, reported>>

\* The wallet disconnects, connects, or switches to another account.
AccountChanges ==
    /\ \E a \in (Addresses \cup {NoAddress}) \ {address} :
         /\ address' = a
         /\ (isConfirmed /\ hash # NoHash /\ a # NoAddress) => Len(reported) < MaxReports
         /\ WalletEffects(isConfirmed, hash, a, writeStatus)
    /\ UNCHANGED <<writeStatus, hash, isConfirmed, receiptFailed, claimed, txFrom,
                   superseded, clientNow>>

ClientNext ==
    \/ Pass /\ UNCHANGED <<serverVars, app0>>
    \/ Tick /\ UNCHANGED <<serverVars, app0>>
    \/ LogTick /\ UNCHANGED <<serverVars, app0>>
    \/ startMining /\ UNCHANGED <<serverVars, app0>>
    \/ pauseMining /\ UNCHANGED <<serverVars, app0>>
    \/ continueMining /\ UNCHANGED <<serverVars, app0>>
    \/ openStopWarning /\ UNCHANGED <<serverVars, app0>>
    \/ confirmStop /\ UNCHANGED <<serverVars, app0>>
    \/ cancelStopWarning /\ UNCHANGED <<serverVars, app0>>
    \/ ToggleCpu /\ UNCHANGED <<serverVars, app0>>
    \/ ToggleGpu /\ UNCHANGED <<serverVars, app0>>
    \/ handleClaim /\ UNCHANGED <<serverVars, app0>>
    \/ WalletSigns /\ UNCHANGED <<serverVars, app0>>
    \/ WalletRejects /\ UNCHANGED <<serverVars, app0>>
    \/ TxConfirmed /\ UNCHANGED <<serverVars, app0>>
    \/ TxFails /\ UNCHANGED <<serverVars, app0>>
    \/ SupersededEnds /\ UNCHANGED <<serverVars, app0>>
    \/ AccountChanges /\ UNCHANGED <<serverVars, app0>>

(***************************************************************************)
(* The App component of part_000: the session with the pause dialog.  Its  *)
(* state is the record app0, one field for each useState and wagmi value   *)
(* of that component, under the name the component gives it.  The wallet   *)
(* stays connected.  As above, a callback's updates are committed and the  *)
(* effects they trigger are run before the next callback runs.             *)
(***************************************************************************)
App0NoTimer ==
    [on |-> FALSE, startTime |-> 0, initialProgress |-> 0, remainingTime |-> 0,
     endTime |-> 0, due |-> 0]

App0Init ==
    app0 = [miningState |-> "idle", progress |-> 0, timeLeft |-> SessionMs,
            hashRate |-> 0, accumulatedReward |-> 0, pausedProgress |-> 0,
            pausedReward |-> 0, pausedTimeLeft |-> 0, showPauseDialog |-> FALSE,
            timer |-> App0NoTimer, now |-> 0, toast |-> "", address |-> "0xA11ce",
            writeStatus |-> "idle", hash |-> NoHash, isConfirmed |-> FALSE,
            reported |-> <<>>]

\* Math.min(200, (p / 100) * 200) in millionths of a USDC, to the nearest one.
App0Accumulated(p) == Min(200 * 1000000, (2000 * p + 3) \div 6)

\* useEffect(..., [miningState, pausedProgress, pausedReward, pausedTimeLeft]):
\* the state a callback leaves, after the cleanup and the effect it triggers.
App0Effect(before, after) ==
    IF <<after.miningState, after.pausedProgress, after.pausedReward,
         after.pausedTimeLeft>> =
          <<before.miningState, before.pausedProgress, before.pausedReward,
            before.pausedTimeLeft>>
    THEN after
    ELSE IF after.miningState = "mining"
         THEN [after EXCEPT !.timer =
                  [on |-> TRUE, startTime |-> after.now,
                   initialProgress |-> after.pausedProgress,
                   remainingTime |-> EffectRemainingTime(after.pausedTimeLeft),
                   endTime |-> after.now + EffectRemainingTime(after.pausedTimeLeft),
                   due |-> after.now + TickMs]]
         ELSE [after EXCEPT !.timer = App0NoTimer]

\* Time passes in the browser.
App0Pass ==
    \E t \in ClockGrid : t > app0.now /\ app0' = [app0 EXCEPT !.now = t]

\* The callback of setInterval(..., 100).
App0Tick ==
    /\ app0.timer.on
    /\ app0.now >= app0.timer.due
    /\ LET remaining == Max(0, app0.timer.endTime - app0.now)
           elapsed == app0.timer.remainingTime - remaining
           p == Min(Hundred, app0.timer.initialProgress + elapsed)
           ticked == [app0 EXCEPT !.timeLeft = remaining,
                                  !.progress = p,
                                  !.accumulatedReward = App0Accumulated(p),
                                  !.hashRate = 55,
                                  !.timer.due = app0.now + TickMs]
       IN app0' = App0Effect(app0,
                     IF remaining <= 0
                     THEN [ticked EXCEPT !.miningState = "ready",
                                         !.accumulatedReward = 200 * 1000000,
                                         !.timer.on = FALSE,
                                         !.toast = "Mining Complete!"]
                     ELSE ticked)

\* The start button is rendered in idle only, and disabled during the cooldown.
App0startMining ==
    /\ app0.miningState = "idle"
    /\ app0' = App0Effect(app0,
                   [app0 EXCEPT !.miningState = "mining",
                                !.timeLeft = SessionMs,
                                !.progress = 0,
                                !.accumulatedReward = 0,
                                !.pausedProgress = 0,
                                !.pausedReward = 0,
                                !.pausedTimeLeft = 0])

App0pauseMining ==
    /\ app0.miningState = "mining"
    /\ app0' = App0Effect(app0,
                   [app0 EXCEPT !.pausedProgress = app0.progress,
                                !.pausedReward = app0.accumulatedReward,
                                !.pausedTimeLeft = app0.timeLeft,
                                !.miningState = "paused",
                                !.showPauseDialog = TRUE])

\* The continue button of the page, rendered in paused, and of the dialog.
App0continueMining ==
    /\ app0.miningState = "paused" \/ app0.showPauseDialog
    /\ app0' = App0Effect(app0,
                   [app0 EXCEPT !.showPauseDialog = FALSE,
                                !.miningState = "mining"])

\* The dialog's Stop & Claim button.
stopAndClaim ==
    /\ app0.showPauseDialog
    /\ app0' = App0Effect(app0,
                   [app0 EXCEPT !.showPauseDialog = FALSE,
                                !.miningState = "ready"])

\* onOpenChange(false): the dialog is dismissed.
App0closeDialog ==
    /\ app0.showPauseDialog
    /\ app0' = [app0 EXCEPT !.showPauseDialog = FALSE]

\* The claim button is rendered in ready only, and disabled while the receipt
\* is awaited.
App0handleClaim ==
    /\ app0.miningState = "ready"
    /\ ~(app0.hash # NoHash /\ ~app0.isConfirmed)
    /\ app0' = [app0 EXCEPT !.writeStatus = "pending",
                            !.hash = NoHash,
                            !.isConfirmed = FALSE]

\* The user signs: the hook has the hash of the transaction.
App0WalletSigns ==
    /\ app0.writeStatus = "pending"
    /\ app0' = [app0 EXCEPT !.writeStatus = "success",
                            !.hash = "0x7a" \o ToString(Len(app0.reported) + 1)]

\* The user rejects: the writeError effect.
App0WalletRejects ==
    /\ app0.writeStatus = "pending"
    /\ app0' = [app0 EXCEPT !.writeStatus = "error", !.toast = "Claim Failed"]

\* The receipt arrives: useEffect(..., [isConfirmed, hash, address]) reports the
\* claim and resets the session.
App0TxConfirmed ==
    /\ app0.hash # NoHash
    /\ ~app0.isConfirmed
    /\ Len(app0.reported) < MaxReports
    /\ app0' = App0Effect(app0,
                   [app0 EXCEPT
                       !.isConfirmed = TRUE,
                       !.reported =
                           Append(@, [walletAddress |-> app0.address,
                                      amount |-> ToFixed(Micro(app0.accumulatedReward), 6),
                                      transactionHash |-> app0.hash]),
                       !.toast = "Claim Successful!",
                       !.miningState = "idle",
                       !.accumulatedReward = 0,
                       !.progress = 0,
                       !.pausedProgress = 0,
                       !.pausedReward = 0,
                       !.pausedTimeLeft = 0])

App0Next ==
    \/ App0Pass /\ UNCHANGED <<serverVars, clientVars>>
    \/ App0Tick /\ UNCHANGED <<serverVars, clientVars>>
    \/ App0startMining /\ UNCHANGED <<serverVars, clientVars>>
    \/ App0pauseMining /\ UNCHANGED <<serverVars, clientVars>>
    \/ App0continueMining /\ UNCHANGED <<serverVars, clientVars>>
    \/ stopAndClaim /\ UNCHANGED <<serverVars, clientVars>>
    \/ App0closeDialog /\ UNCHANGED <<serverVars, clientVars>>
    \/ App0handleClaim /\ UNCHANGED <<serverVars, clientVars>>
    \/ App0WalletSigns /\ UNCHANGED <<serverVars, clientVars>>
    \/ App0WalletRejects /\ UNCHANGED <<serverVars, clientVars>>
    \/ App0TxConfirmed /\ UNCHANGED <<serverVars, clientVars>>

(***************************************************************************)
(* server/routes.ts: constants.                                            *)
(***************************************************************************)
FAUCET_CONTRACT == "0xBd736A5D744A6364dd74B12Bb679d66360d7AeD9"
USDC_ADDRESS == "0x3600000000000000000000000000000000000000"

\* BigInt(200) * BigInt(10 ** 6)
TARGET_VALUE == 200 * Pow10(6)

\* storage.getClaimHistory(50)
LocalLimit == 50

Undefined == "<undefined>"

Field(obj, name) == IF name \in DOMAIN obj THEN obj[name] ELSE Undefined

(***************************************************************************)
(* server/storage.ts: MemStorage.                                          *)
(***************************************************************************)
StoredIds == {claimHistory[i].id : i \in 1..Len(claimHistory)}

\* randomUUID(): an identifier no earlier call has returned.
RandomUUID == "uuid-" \o ToString(Len(claimHistory) + 1)

\* Map.prototype.set: a known key keeps its place, a new key goes last.
MapSet(entries, claim) ==
    IF \E i \in 1..Len(entries) : entries[i].id = claim.id
    THEN [i \in 1..Len(entries) |->
             IF entries[i].id = claim.id THEN claim ELSE entries[i]]
    ELSE Append(entries, claim)

\* As NewClaim, without ?? null: a claim without a hash keeps undefined.
NewClaimWithoutNull(insertClaim, id, at) ==
    [walletAddress |-> insertClaim.walletAddress,
     amount |-> insertClaim.amount,
     transactionHash |-> Field(insertClaim, "transactionHash"),
     id |-> id,
     claimedAt |-> at]

NewClaim(insertClaim, id, at) ==
    [walletAddress |-> insertClaim.walletAddress,
     amount |-> insertClaim.amount,
     transactionHash |->
         IF "transactionHash" \in DOMAIN insertClaim
         THEN insertClaim.transactionHash ELSE Null,
     id |-> id,
     claimedAt |-> at]

\* As CreateClaimHistory, with one key for every claim.
CreateClaimHistorySameKey(entries, insertClaim, id, at) ==
    MapSet(entries, NewClaim(insertClaim, "uuid-1", at))

CreateClaimHistory(entries, insertClaim, id, at) ==
    MapSet(entries, NewClaim(insertClaim, id, at))

\* Array.prototype.sort with (a, b) => b.claimedAt - a.claimedAt: stable, so
\* entries of one instant keep their insertion order.
RECURSIVE InsertByClaimedAt(_, _)
InsertByClaimedAt(sorted, e) ==
    IF sorted = <<>> THEN <<e>>
    ELSE IF Head(sorted).claimedAt >= e.claimedAt
         THEN <<Head(sorted)>> \o InsertByClaimedAt(Tail(sorted), e)
         ELSE <<e>> \o sorted

RECURSIVE SortByClaimedAtDesc(_)
SortByClaimedAtDesc(entries) ==
    IF entries = <<>> THEN <<>>
    ELSE InsertByClaimedAt(
             SortByClaimedAtDesc(SubSeq(entries, 1, Len(entries) - 1)),
             entries[Len(entries)])

Take(entries, n) == SubSeq(entries, 1, IF Len(entries) < n THEN Len(entries) ELSE n)

\* As GetClaimHistory, without the sort.
GetClaimHistoryUnsorted(entries, limit) == Take(entries, limit)

GetClaimHistory(entries, limit) == Take(SortByClaimedAtDesc(entries), limit)

SameWallet(claim, walletAddress) ==
    ToLowerCase(claim.walletAddress) = ToLowerCase(walletAddress)

\* As GetClaimHistoryByWallet, without the sort.
GetClaimHistoryByWalletUnsorted(entries, walletAddress) ==
    SelectSeq(entries, LAMBDA c : SameWallet(c, walletAddress))

GetClaimHistoryByWallet(entries, walletAddress) ==
    SortByClaimedAtDesc(SelectSeq(entries, LAMBDA c : SameWallet(c, walletAddress)))

(***************************************************************************)
(* server/routes.ts: the transfer filter and the mapping to entries.       *)
(***************************************************************************)
\* A filter callback without the try around BigInt(tx.value): a value that is no
\* integer throws out of the callback as well.
FilterThrowsOnValue(tx) ==
    \/ "from" \notin DOMAIN tx
    \/ "value" \notin DOMAIN tx
    \/ ~BigIntParses(tx.value)

\* tx.from.toLowerCase() is a TypeError when the record has no `from`.
FilterThrows(tx) == "from" \notin DOMAIN tx

contractLower == ToLowerCase(FAUCET_CONTRACT)
usdcLower == ToLowerCase(USDC_ADDRESS)

\* The filter callback of both endpoints, for a record it does not throw on.
IsFaucetClaim(tx) ==
    LET fromLower == ToLowerCase(tx.from)
        tokenLower ==
            IF "contractAddress" \in DOMAIN tx
            THEN ToLowerCase(tx.contractAddress) ELSE ""
    IN  /\ "value" \in DOMAIN tx
        /\ BigIntParses(tx.value)
        /\ fromLower = contractLower
        /\ tokenLower = usdcLower
        /\ BigIntValue(tx.value) = TARGET_VALUE

\* parseInt(tx.tokenDecimal || '6')
DecimalsText(tx) ==
    IF "tokenDecimal" \in DOMAIN tx /\ tx.tokenDecimal # "" THEN tx.tokenDecimal ELSE "6"

\* Number(BigInt(tx.value)) / Math.pow(10, decimals)
ScaledValue(tx) ==
    DivPow10(BigIntValue(tx.value), ParseIntIsNaN(DecimalsText(tx)),
             ParseIntValue(DecimalsText(tx)))

\* The map callback throws on a record without a hash (tx.hash.slice) and on one
\* whose timeStamp is no number (toISOString of an invalid Date).
MapThrows(tx) ==
    \/ "hash" \notin DOMAIN tx
    \/ "timeStamp" \notin DOMAIN tx
    \/ ParseIntIsNaN(tx.timeStamp)

\* As ToEntry, with the feed's seconds taken for milliseconds.
ToEntrySeconds(tx) ==
    [id |-> SliceTo(tx.hash, 8),
     walletAddress |-> Field(tx, "to"),
     amount |-> ToFixed(ScaledValue(tx), 6),
     transactionHash |-> tx.hash,
     claimedAt |-> ToISOString(ParseIntValue(tx.timeStamp))]

ToEntry(tx) ==
    [id |-> SliceTo(tx.hash, 8),
     walletAddress |-> Field(tx, "to"),
     amount |-> ToFixed(ScaledValue(tx), 6),
     transactionHash |-> tx.hash,
     claimedAt |-> ToISOString(ParseIntValue(tx.timeStamp) * 1000)]

FilterClaims(result) == SelectSeq(result, IsFaucetClaim)

MapClaims(txs) == [i \in 1..Len(txs) |-> ToEntry(txs[i])]

\* A total that takes every counted record for 200.
SumValuesFlat(txs) == Micro(Len(txs) * 200 * Pow10(MicroDigits))

RECURSIVE SumValues(_)
SumValues(txs) ==
    IF txs = <<>> THEN Micro(0)
    ELSE NumAdd(SumValues(SubSeq(txs, 1, Len(txs) - 1)), ScaledValue(txs[Len(txs)]))

(***************************************************************************)
(* What the fetch of the transfer feed can give.  A feed outcome is        *)
(*   [kind |-> "network_error"]   fetch rejects                            *)
(*   [kind |-> "http_error"]      response.ok is false                     *)
(*   [kind |-> "bad_json"]        response.json() rejects                  *)
(*   [kind |-> "json_null"]       the body is the JSON value null          *)
(*   [kind |-> "json", data |-> d]  d the body's object; d.result, when    *)
(*       present, is [type |-> "array", items |-> <<records>>] or          *)
(*       [type |-> "string", text |-> "..."]                               *)
(***************************************************************************)
FetchThrows(feed) == feed.kind \in {"network_error", "http_error", "bad_json"}

\* data.status !== "1" || !data.result
NotSuccess(data) ==
    \/ Field(data, "status") # "1"
    \/ "result" \notin DOMAIN data
    \/ (data.result.type = "string" /\ data.result.text = "")

\* The statements after the status test throw: data.result has no filter method,
\* or a callback throws.
ProcessingThrows(data, mapped) ==
    \/ data.result.type # "array"
    \/ \E i \in 1..Len(data.result.items) : FilterThrows(data.result.items[i])
    \/ /\ mapped
       /\ \E i \in 1..Len(data.result.items) :
              IsFaucetClaim(data.result.items[i]) /\ MapThrows(data.result.items[i])

\* The try block of GET /api/claim-history ends in the catch block.
HistoryCaught(feed) ==
    \/ FetchThrows(feed)
    \/ feed.kind = "json_null"
    \/ (~NotSuccess(feed.data) /\ ProcessingThrows(feed.data, TRUE))

\* As HistoryCatch, answering as the catch block of the wallet route does.
HistoryCatchError(entries) ==
    [status |-> 500, body |-> [error |-> "TypeError"], source |-> "none", fetched |-> TRUE]

HistoryCatch(entries) ==
    [status |-> 200, body |-> GetClaimHistory(entries, LocalLimit),
     source |-> "local", fetched |-> TRUE]

\* A handler that appends the local entries to the entries of the feed.
HistoryResponseMerged(entries, feed) ==
    IF HistoryCaught(feed) THEN HistoryCatch(entries)
    ELSE IF NotSuccess(feed.data)
         THEN [status |-> 200, body |-> <<>>, source |-> "empty", fetched |-> TRUE]
         ELSE [status |-> 200,
               body |-> MapClaims(FilterClaims(feed.data.result.items))
                            \o GetClaimHistory(entries, LocalLimit),
               source |-> "feed", fetched |-> TRUE]

HistoryResponse(entries, feed) ==
    IF HistoryCaught(feed) THEN HistoryCatch(entries)
    ELSE IF NotSuccess(feed.data)
         THEN [status |-> 200, body |-> <<>>, source |-> "empty", fetched |-> TRUE]
         ELSE [status |-> 200,
               body |-> MapClaims(FilterClaims(feed.data.result.items)),
               source |-> "feed", fetched |-> TRUE]

TotalCaught(feed) ==
    \/ FetchThrows(feed)
    \/ feed.kind = "json_null"
    \/ (~NotSuccess(feed.data) /\ ProcessingThrows(feed.data, FALSE))

ZeroTotal == [totalClaimed |-> "0", claimCount |-> 0]

TotalCatch ==
    [status |-> 200, body |-> ZeroTotal, source |-> "zero", fetched |-> TRUE]

TotalResponse(feed) ==
    IF TotalCaught(feed) THEN TotalCatch
    ELSE IF NotSuccess(feed.data)
         THEN [status |-> 200, body |-> ZeroTotal, source |-> "empty", fetched |-> TRUE]
         ELSE LET validClaims == FilterClaims(feed.data.result.items)
              IN  [status |-> 200,
                   body |-> [totalClaimed |-> ToFixed(SumValues(validClaims), 2),
                             claimCount |-> Len(validClaims)],
                   source |-> "feed", fetched |-> TRUE]

(***************************************************************************)
(* shared/schema insertClaimHistorySchema.parse: accepts a body with a     *)
(* non-empty walletAddress and an amount that is a non-negative            *)
(* fixed-point decimal, and keeps the schema's fields.                     *)
(***************************************************************************)
IsFixedPoint(s) ==
    LET dot == IndexOf(s, ".")
    IN  IF dot = 0 THEN IsDigits(s)
        ELSE IsDigits(SubSeq(s, 1, dot - 1)) /\ IsDigits(SubSeq(s, dot + 1, Len(s)))

SchemaAccepts(body) ==
    /\ "walletAddress" \in DOMAIN body
    /\ body.walletAddress # ""
    /\ "amount" \in DOMAIN body
    /\ IsFixedPoint(body.amount)

ValidationMessage == "invalid claim"

(***************************************************************************)
(* server/routes.ts: the handlers.  A handler that awaits the feed runs    *)
(* nothing before the fetch and all the rest once the fetch has settled.   *)
(***************************************************************************)
\* As PostHandler, with the catch block answering without res.status(400).
PostHandlerNoStatus(entries, body, id, at) ==
    IF SchemaAccepts(body)
    THEN [entries |-> CreateClaimHistory(entries, body, id, at),
          resp |-> [status |-> 200, body |-> NewClaim(body, id, at),
                    source |-> "local", fetched |-> FALSE]]
    ELSE [entries |-> entries,
          resp |-> [status |-> 200, body |-> [error |-> ValidationMessage],
                    source |-> "none", fetched |-> FALSE]]

PostHandler(entries, body, id, at) ==
    IF SchemaAccepts(body)
    THEN [entries |-> CreateClaimHistory(entries, body, id, at),
          resp |-> [status |-> 200, body |-> NewClaim(body, id, at),
                    source |-> "local", fetched |-> FALSE]]
    ELSE [entries |-> entries,
          resp |-> [status |-> 400, body |-> [error |-> ValidationMessage],
                    source |-> "none", fetched |-> FALSE]]

WalletResponse(entries, walletAddress) ==
    [status |-> 200, body |-> GetClaimHistoryByWallet(entries, walletAddress),
     source |-> "local", fetched |-> FALSE]

(***************************************************************************)
(* The requests and feeds of the model.                                    *)
(***************************************************************************)
WalletA == "0xAbC1"
WalletB == "0xD2ef"

PostBodies ==
    {[walletAddress |-> WalletA, amount |-> "200.000000", transactionHash |-> "0x51aa"],
     [walletAddress |-> WalletB, amount |-> "200.000000"],
     [walletAddress |-> "", amount |-> "200.000000"],
     [walletAddress |-> WalletA, amount |-> "-200.000000"],
     [walletAddress |-> WalletB, amount |-> "2e2"],
     [amount |-> "200.000000"],
     [walletAddress |-> WalletB]}

WalletQueries == {WalletA, "0xabc1", "0xABC1", WalletB, "0xd2eF", "0x0000"}

GoodTx ==
    [hash |-> "0x9f3c7a1be2", from |-> FAUCET_CONTRACT, to |-> WalletA,
     value |-> "200000000", tokenSymbol |-> "USDC", tokenDecimal |-> "6",
     timeStamp |-> "17", contractAddress |-> USDC_ADDRESS]

\* The same claim as the explorer reports it: addresses in another letter case.
GoodTxLower ==
    [hash |-> "0x4410d", from |-> "0xbd736a5d744a6364dd74b12bb679d66360d7aed9",
     to |-> WalletB, value |-> "200000000", tokenSymbol |-> "USDC",
     timeStamp |-> "3725", contractAddress |-> "0X3600000000000000000000000000000000000000"]

Without(tx, name) == [f \in DOMAIN tx \ {name} |-> tx[f]]

TxSamples ==
    {GoodTx, GoodTxLower,
     [GoodTx EXCEPT !.value = "199000000"],
     [GoodTx EXCEPT !.value = "2e8"],
     [GoodTx EXCEPT !.value = ""],
     [GoodTx EXCEPT !.tokenDecimal = "8"],
     [GoodTx EXCEPT !.tokenDecimal = "six"],
     [GoodTx EXCEPT !.from = "0x00000000000000000000000000000000000000f1"],
     [GoodTx EXCEPT !.contractAddress = "0x00000000000000000000000000000000000000c2"],
     [GoodTx EXCEPT !.timeStamp = "soon"],
     Without(GoodTx, "value"),
     Without(GoodTx, "contractAddress"),
     Without(GoodTx, "from"),
     Without(GoodTx, "hash"),
     Without(GoodTx, "timeStamp")}

PairSamples ==
    {GoodTxLower,
     [GoodTx EXCEPT !.value = "199000000"],
     [GoodTx EXCEPT !.value = "2e8"],
     [GoodTx EXCEPT !.tokenDecimal = "8"],
     [GoodTx EXCEPT !.tokenDecimal = "six"],
     [GoodTx EXCEPT !.timeStamp = "soon"],
     Without(GoodTx, "from"),
     Without(GoodTx, "hash")}

FeedArrays ==
    {<<>>} \cup {<<tx>> : tx \in TxSamples}
        \cup {<<GoodTx, tx>> : tx \in PairSamples}
        \cup {<<Without(GoodTx, "from"), GoodTxLower>>,
              <<[GoodTx EXCEPT !.value = "199000000"], GoodTxLower>>}

FeedOutcomes ==
    {[kind |-> "network_error"], [kind |-> "http_error"], [kind |-> "bad_json"],
     [kind |-> "json_null"],
     [kind |-> "json", data |-> [status |-> "0", message |-> "No transactions found",
                                 result |-> [type |-> "array", items |-> <<>>]]],
     [kind |-> "json", data |-> [status |-> "0", message |-> "NOTOK",
                                 result |-> [type |-> "string", text |-> "Max rate limit reached"]]],
     [kind |-> "json", data |-> [status |-> "1", message |-> "OK"]],
     [kind |-> "json", data |-> [message |-> "OK",
                                 result |-> [type |-> "array", items |-> <<GoodTx>>]]],
     [kind |-> "json", data |-> [status |-> "1", message |-> "OK",
                                 result |-> [type |-> "string", text |-> ""]]],
     [kind |-> "json", data |-> [status |-> "1", message |-> "OK",
                                 result |-> [type |-> "string", text |-> "pending"]]]}
        \cup {[kind |-> "json", data |-> [status |-> "1", message |-> "OK",
                                          result |-> [type |-> "array", items |-> a]]] :
                  a \in FeedArrays}

(***************************************************************************)
(* The server's steps.  One feed-backed request is in flight at a time;    *)
(* claims are recorded and time passes while it is.                        *)
(***************************************************************************)
NoRequest == [route |-> "none"]
NoResponse == [status |-> 0, body |-> <<>>, source |-> "none", fetched |-> FALSE]

HistoryRoute == "GET /api/claim-history"
TotalRoute == "GET /api/total-claimed"
WalletRoute == "GET /api/claim-history/:walletAddress"
PostRoute == "POST /api/claim-history"

ServerInit ==
    /\ claimHistory = <<>>
    /\ serverClock = 0
    /\ pending = "none"
    /\ req = NoRequest
    /\ resp = NoResponse

\* POST /api/claim-history
PostClaimHistory ==
    \E body \in PostBodies :
        LET out == PostHandler(claimHistory, body, RandomUUID, serverClock)
        IN  /\ SchemaAccepts(body) => Len(claimHistory) < MaxClaims
            /\ claimHistory' = out.entries
            /\ req' = [route |-> PostRoute, body |-> body]
            /\ resp' = out.resp
            /\ UNCHANGED <<serverClock, pending>>

\* GET /api/claim-history/:walletAddress
GetWalletHistory ==
    \E walletAddress \in WalletQueries :
        /\ pending = "none"
        /\ req' = [route |-> WalletRoute, walletAddress |-> walletAddress]
        /\ resp' = WalletResponse(claimHistory, walletAddress)
        /\ UNCHANGED <<claimHistory, serverClock, pending>>

\* GET /api/claim-history and GET /api/total-claimed arrive: the handler calls
\* fetch and awaits it.
RequestFeed ==
    \E route \in {HistoryRoute, TotalRoute} :
        /\ pending = "none"
        /\ pending' = route
        /\ req' = NoRequest
        /\ resp' = NoResponse
        /\ UNCHANGED <<claimHistory, serverClock>>

\* A GET /api/claim-history that stores the entries it derived from the feed.
GetHistoryPersists ==
    \E feed \in FeedOutcomes :
        LET answer == HistoryResponse(claimHistory, feed)
        IN  /\ pending = HistoryRoute
            /\ pending' = "none"
            /\ req' = [route |-> HistoryRoute, feed |-> feed]
            /\ resp' = answer
            /\ claimHistory' = IF answer.source = "feed"
                               THEN claimHistory \o answer.body ELSE claimHistory
            /\ UNCHANGED serverClock

\* The fetch of GET /api/claim-history settles and the handler answers.
GetHistory ==
    \E feed \in FeedOutcomes :
        /\ pending = HistoryRoute
        /\ pending' = "none"
        /\ req' = [route |-> HistoryRoute, feed |-> feed]
        /\ resp' = HistoryResponse(claimHistory, feed)
        /\ UNCHANGED <<claimHistory, serverClock>>

\* The fetch of GET /api/total-claimed settles and the handler answers.
GetTotalClaimed ==
    \E feed \in FeedOutcomes :
        /\ pending = TotalRoute
        /\ pending' = "none"
        /\ req' = [route |-> TotalRoute, feed |-> feed]
        /\ resp' = TotalResponse(feed)
        /\ UNCHANGED <<claimHistory, serverClock>>

\* Time passes on the server.
ServerClockTick ==
    /\ serverClock < MaxServerClock
    /\ serverClock' = serverClock + 1
    /\ UNCHANGED <<claimHistory, pending, req, resp>>

ServerNext ==
    \/ PostClaimHistory /\ UNCHANGED <<clientVars, app0>>
    \/ GetWalletHistory /\ UNCHANGED <<clientVars, app0>>
    \/ RequestFeed /\ UNCHANGED <<clientVars, app0>>
    \/ GetHistory /\ UNCHANGED <<clientVars, app0>>
    \/ GetTotalClaimed /\ UNCHANGED <<clientVars, app0>>
    \/ ServerClockTick /\ UNCHANGED <<clientVars, app0>>

Init == ServerInit /\ ClientInit /\ App0Init

ServerSpec == Init /\ [][ServerNext]_vars

ClientSpec == Init /\ [][ClientNext]_vars

App0Spec == Init /\ [][App0Next]_vars

(***************************************************************************)
(* Properties of the claim ledger reconciler.                              *)
(***************************************************************************)
Range(seq) == {seq[i] : i \in 1..Len(seq)}

EqualIgnoringCase(a, b) == ToLowerCase(a) = ToLowerCase(b)

SortedByClaimedAtDesc(entries) ==
    \A i, j \in 1..Len(entries) : i < j => entries[i].claimedAt >= entries[j].claimedAt

DistinctIds(entries) ==
    \A i, j \in 1..Len(entries) : i # j => entries[i].id # entries[j].id

\* The most recent `limit` local entries, ordered by claimedAt descending.
IsLocalFallback(body) ==
    /\ Len(body) = (IF Len(claimHistory) < LocalLimit THEN Len(claimHistory) ELSE LocalLimit)
    /\ Range(body) \subseteq Range(claimHistory)
    /\ DistinctIds(body)
    /\ SortedByClaimedAtDesc(body)
    /\ \A e \in Range(claimHistory) \ Range(body) :
           \A b \in Range(body) : b.claimedAt >= e.claimedAt

\* The claim's test of a transfer record.
MatchesClaimSignature(tx) ==
    /\ "from" \in DOMAIN tx
    /\ EqualIgnoringCase(tx.from, FAUCET_CONTRACT)
    /\ "contractAddress" \in DOMAIN tx
    /\ EqualIgnoringCase(tx.contractAddress, USDC_ADDRESS)
    /\ "value" \in DOMAIN tx
    /\ IsDigits(tx.value)
    /\ DigitsToInt(tx.value, 0) = 200 * 1000000

AnsweredHistory == req.route = HistoryRoute
AnsweredTotal == req.route = TotalRoute

FeedHasStatusOne ==
    /\ req.feed.kind = "json"
    /\ Field(req.feed.data, "status") = "1"
    /\ "result" \in DOMAIN req.feed.data
    /\ req.feed.data.result.type = "array"

\* C1: for GET /claim-history with a reachable feed of status "1", the entries of
\* the response are those of exactly the records sent by the faucet, on the token,
\* with value 200 * 10^6: one entry per such record, in the feed's order.
C1_EntryIffSignature ==
    (AnsweredHistory /\ FeedHasStatusOne) =>
        LET matching == SelectSeq(req.feed.data.result.items, MatchesClaimSignature)
        IN  /\ Len(resp.body) = Len(matching)
            /\ \A j \in 1..Len(matching) :
                   resp.body[j].transactionHash = Field(matching[j], "hash")

\* The three ways the feed call fails: a network error, a status that is not a
\* success (of the HTTP response or of the payload), a malformed payload.
FeedCallFailed(feed) ==
    \/ feed.kind \in {"network_error", "http_error", "bad_json", "json_null"}
    \/ /\ feed.kind = "json"
       /\ \/ Field(feed.data, "status") # "1"
          \/ "result" \notin DOMAIN feed.data
          \/ feed.data.result.type # "array"

FeedCallThrew(feed) ==
    \/ feed.kind \in {"network_error", "http_error", "bad_json", "json_null"}
    \/ /\ feed.kind = "json"
       /\ Field(feed.data, "status") = "1"
       /\ "result" \in DOMAIN feed.data
       /\ feed.data.result.type = "string"
       /\ feed.data.result.text # ""

\* The payload's status is not "1", or it has no result.
FeedSaidNoSuccess(feed) ==
    /\ feed.kind = "json"
    /\ \/ Field(feed.data, "status") # "1"
       \/ "result" \notin DOMAIN feed.data
       \/ (feed.data.result.type = "string" /\ feed.data.result.text = "")

EntryFields == {"id", "walletAddress", "amount", "transactionHash", "claimedAt"}

\* C3: whatever the fetch of the feed gives, GET /claim-history answers 200 with
\* an array of entries and GET /total-claimed answers 200 with a
\* {totalClaimed, claimCount} object.
C3_FeedFailuresNeverSurface ==
    /\ AnsweredHistory =>
           /\ resp.status = 200
           /\ \A j \in 1..Len(resp.body) : DOMAIN resp.body[j] = EntryFields
    /\ AnsweredTotal =>
           /\ resp.status = 200
           /\ DOMAIN resp.body = {"totalClaimed", "claimCount"}

\* A record of the feed made the handler throw, and the catch block answered.
C3_Witness ==
    /\ AnsweredHistory
    /\ FeedHasStatusOne
    /\ \E i \in 1..Len(req.feed.data.result.items) :
           "from" \notin DOMAIN req.feed.data.result.items[i]
    /\ resp.status = 200
    /\ Len(resp.body) = 2

\* C4: GET /total-claimed on an unreachable or failing feed answers exactly
\* {totalClaimed: "0.00", claimCount: 0}.
C4_FailureGivesZeroTotal ==
    (AnsweredTotal /\ FeedCallFailed(req.feed)) =>
        /\ resp.status = 200
        /\ resp.body = [totalClaimed |-> "0.00", claimCount |-> 0]

\* The claim's malformed bodies.
MalformedBody(body) ==
    \/ Field(body, "walletAddress") = ""
    \/ ~IsFixedPoint(Field(body, "amount"))

\* C5: a POST /claim-history with an empty walletAddress, or with an amount that
\* is no non-negative fixed-point decimal, is answered 400 with an {error} body
\* and leaves the local storage as it was.
C5_MalformedClaimRejected ==
    [][(req'.route = PostRoute /\ MalformedBody(req'.body)) =>
           /\ resp'.status = 400
           /\ DOMAIN resp'.body = {"error"}
           /\ claimHistory' = claimHistory]_vars

C5_Witness ==
    /\ req.route = PostRoute
    /\ Field(req.body, "walletAddress") = ""
    /\ resp.status = 400
    /\ Len(claimHistory) = 1

\* C6: a claim recorded with success stays in the storage, and every later
\* GET /claim-history/:walletAddress for its address, in any letter case, lists it.
C6_RecordedClaimStaysListed ==
    [][/\ Range(claimHistory) \subseteq Range(claimHistory')
       /\ (req'.route = PostRoute /\ resp'.status = 200) =>
              resp'.body \in Range(claimHistory')
       /\ req'.route = WalletRoute =>
              \A e \in Range(claimHistory') :
                  EqualIgnoringCase(e.walletAddress, req'.walletAddress) =>
                      e \in Range(resp'.body)]_vars

\* The claim of WalletA, recorded before another one, is listed for "0xABC1".
C6_Witness ==
    /\ req.route = WalletRoute
    /\ req.walletAddress = "0xABC1"
    /\ Len(claimHistory) = 2
    /\ claimHistory[1].walletAddress = WalletA
    /\ claimHistory[2].walletAddress = WalletB
    /\ claimHistory[1] \in Range(resp.body)

\* C7: GET /claim-history/:walletAddress answers with exactly the stored entries
\* whose walletAddress equals the requested one up to letter case, newest first,
\* and without a feed query.
C7_WalletHistoryExact ==
    req.route = WalletRoute =>
        /\ resp.status = 200
        /\ ~resp.fetched
        /\ Range(resp.body) =
               {e \in Range(claimHistory) :
                    EqualIgnoringCase(e.walletAddress, req.walletAddress)}
        /\ DistinctIds(resp.body)
        /\ SortedByClaimedAtDesc(resp.body)

\* Two claims of one wallet, recorded at different times, listed newest first.
C7_Witness ==
    /\ req.route = WalletRoute
    /\ Len(resp.body) = 2
    /\ Len(claimHistory) = 2
    /\ resp.body[1] = claimHistory[2]
    /\ resp.body[1].claimedAt > resp.body[2].claimedAt

(***************************************************************************)
(* The mining session.                                                     *)
(***************************************************************************)
RewardLogs(logs) == Cardinality({i \in 1..Len(logs) : logs[i] = "reward"})

\* C8: a session completes, and announces it, exactly once.  The step into
\* "completed" is taken from "mining", writes the session's only reward log
\* line, shows the toast "Mining Complete!" and sets the reward to 200; while the
\* session stays completed no timer is set, and no step changes its log, its
\* progress or its reward, or shows the toast again.
C8_CompletesOnce ==
    [][/\ (miningState # "completed" /\ miningState' = "completed") =>
             /\ miningState = "mining"
             /\ RewardLogs(miningLogs) = 0
             /\ RewardLogs(miningLogs') = 1
             /\ toast' = "Mining Complete!"
             /\ displayedReward' = Reward(200)
             /\ progress' = Hundred
       /\ miningState = "completed" =>
             /\ ~timer.tickOn
             /\ ~timer.logOn
             /\ RewardLogs(miningLogs) = 1
             /\ displayedReward = Reward(200)
       /\ (miningState = "completed" /\ miningState' = "completed") =>
             /\ miningLogs' = miningLogs
             /\ displayedReward' = displayedReward
             /\ progress' = progress
             /\ timeLeft' = timeLeft
             /\ (toast' = "Mining Complete!" => toast = "Mining Complete!")]_vars

\* A session that was paused and resumed has completed; a claim has been tried
\* since, and rejected.
C8_Witness ==
    /\ miningState = "completed"
    /\ pausedTimeLeft > 0
    /\ RewardLogs(miningLogs) = 1
    /\ displayedReward = Reward(200)
    /\ toast = "Claim Failed"

\* The steps that reset a session.
StartStep == miningState = "idle" /\ miningState' = "mining"

ConfirmedStopStep == showStopWarning /\ ~showStopWarning' /\ toast' = "Mining Stopped"

\* The confirmation of a claim: the first report of a confirmed transaction.
ClaimConfirmationStep ==
    /\ Len(reported') = Len(reported) + 1
    /\ \A i \in 1..Len(reported) :
         reported[i].transactionHash # reported'[Len(reported')].transactionHash

\* C9: progress never decreases from one state to the next, except that a
\* start, a confirmed stop and the confirmation of a claim set it to 0.
C9_ProgressNeverDecreases ==
    [][\/ progress' >= progress
       \/ /\ progress' = 0
          /\ StartStep \/ ConfirmedStopStep \/ ClaimConfirmationStep]_vars

\* A step of the progress timer.
TickStep ==
    /\ miningState = "mining"
    /\ \/ miningState' = "completed"
       \/ miningState' = "mining" /\ timeLeft' # timeLeft

\* C10: in a session that has not been paused, the tick at t ms after the start
\* writes the progress min(100, t / 600000 * 100), and completes the session if
\* and only if t >= 600000.
C10_ProgressIsElapsedTime ==
    [][(TickStep /\ pausedTimeLeft = 0) =>
          LET t == clientNow - timer.startTime
          IN /\ progress' = Min(Hundred, t)
             /\ timeLeft' = SessionMs - Min(SessionMs, t)
             /\ miningState' = "completed" <=> t >= SessionMs]_vars

\* A session that was never paused has completed.
C10_Witness ==
    /\ miningState = "completed"
    /\ pausedTimeLeft = 0
    /\ progress = Hundred
    /\ timeLeft = 0

\* C11: while the session stays paused no timer is set and no step changes the
\* progress, the time remaining or the paused snapshot, however far the clock
\* moves; the snapshot is the progress and the time remaining at the pause; a
\* resume arms the timer for exactly the time remaining at the pause, from the
\* paused progress, and the resumed session completes at the first tick at which
\* that much time has passed since the resume.
C11_PausedTimeDoesNotCount ==
    [][/\ miningState = "paused" =>
             /\ ~timer.tickOn
             /\ ~timer.logOn
             /\ pausedProgress = progress
             /\ pausedTimeLeft = timeLeft
       /\ (miningState = "paused" /\ miningState' = "paused") =>
             /\ progress' = progress
             /\ timeLeft' = timeLeft
       /\ (miningState = "mining" /\ miningState' = "paused") =>
             /\ progress' = progress
             /\ timeLeft' = timeLeft
       /\ (miningState = "paused" /\ miningState' = "mining") =>
             /\ progress' = progress
             /\ timeLeft' = timeLeft
             /\ timer'.tickOn
             /\ timer'.startTime = clientNow
             /\ timer'.initialProgress = progress
             /\ timer'.endTime = clientNow + timeLeft
       /\ (TickStep /\ pausedTimeLeft # 0) =>
             LET t == clientNow - timer.startTime
             IN /\ miningState' = "completed" <=> t >= pausedTimeLeft
                /\ timeLeft' = pausedTimeLeft - Min(pausedTimeLeft, t)
                /\ progress' = Min(Hundred, pausedProgress + Min(pausedTimeLeft, t))]_vars

\* A session is paused part way, and at least as much time again has passed since
\* the tick that wrote its progress.
C11_Witness ==
    /\ miningState = "paused"
    /\ progress > 0
    /\ timeLeft = SessionMs - progress
    /\ clientNow >= 2 * progress

\* The first tick of the timer that the last run of the mining effect set.
FirstTickStep == TickStep /\ timer.tickDue = timer.startTime + TickMs

\* C12: a pause and a resume each leave progress as it was, and the first tick
\* after the resume adds to the paused progress the time since the resume and
\* nothing else: when that tick is on time (100 ms after the resume) progress is
\* within one tick's worth (100 of 600000 units) of its value before the pause,
\* and not below it.
C12_PauseResumeKeepsProgress ==
    [][/\ (miningState = "mining" /\ miningState' = "paused") =>
             progress' = progress /\ pausedProgress' = progress
       /\ (miningState = "paused" /\ miningState' = "mining") =>
             progress' = progress /\ progress = pausedProgress
       /\ (FirstTickStep /\ pausedTimeLeft # 0) =>
             LET t == clientNow - timer.startTime
             IN /\ progress = pausedProgress
                /\ progress' = progress + Min(t, pausedTimeLeft)
                /\ t <= TickMs => (progress' >= progress /\ progress' - progress <= TickMs)]_vars

\* A session paused part way and resumed has had its first tick, 100 ms after the
\* resume.
C12_Witness ==
    /\ miningState = "mining"
    /\ pausedProgress > 0
    /\ progress = pausedProgress + TickMs
    /\ clientNow = timer.startTime + TickMs

\* C13: every confirmed stop, whatever the state it is taken in, leaves the
\* session idle with progress 0, reward 0, 600000 ms remaining, the paused
\* snapshot 0, an empty log, both counters 0, the share gate off, no timer set,
\* the dialog closed and the device buttons enabled, the selection as it was.
C13_ConfirmedStopResets ==
    [][confirmStop =>
          /\ miningState' = "idle"
          /\ progress' = 0
          /\ displayedReward' = 0
          /\ timeLeft' = SessionMs
          /\ pausedProgress' = 0
          /\ pausedTimeLeft' = 0
          /\ miningLogs' = <<>>
          /\ blocksFound' = 0
          /\ sharesFound' = 0
          /\ ~canFindShares'
          /\ ~showStopWarning'
          /\ timer' = NoTimer
          /\ ~devicesLocked'
          /\ cpuEnabled' = cpuEnabled
          /\ gpuEnabled' = gpuEnabled]_vars

\* A session that had ticked has been stopped.
C13_Witness ==
    /\ miningState = "idle"
    /\ toast = "Mining Stopped"
    /\ hashRate > 0
    /\ timeLeft = SessionMs
    /\ progress = 0
    /\ miningLogs = <<>>
    /\ ~showStopWarning

SessionFields ==
    <<miningState, progress, timeLeft, displayedReward, pausedProgress, pausedTimeLeft,
      miningLogs, blocksFound, sharesFound, canFindShares, cpuEnabled, gpuEnabled>>

\* C14: the stop warning is opened only by openStopWarning and closed only by
\* cancelStopWarning and confirmStop, and confirmStop runs only while it is open:
\* every confirmed stop follows a stop request that was not cancelled since.
\* Neither the request nor the cancellation changes a session field, the timers,
\* the hash rate or the toast.
C14_StopIsTwoStep ==
    [][/\ confirmStop => showStopWarning
       /\ (~showStopWarning /\ showStopWarning') => openStopWarning
       /\ (showStopWarning /\ ~showStopWarning') => (confirmStop \/ cancelStopWarning)
       /\ (showStopWarning' # showStopWarning /\ ~confirmStop) =>
             UNCHANGED <<SessionFields, timer, hashRate, toast>>
       /\ (openStopWarning \/ cancelStopWarning) =>
             UNCHANGED <<SessionFields, timer, hashRate, toast>>]_vars

\* A stop has been requested, and not confirmed: the session is mining as before.
C14_Witness ==
    /\ showStopWarning
    /\ miningState = "mining"
    /\ progress > 0
    /\ timer.tickOn
    /\ timer.logOn

NoDevice == ~cpuEnabled /\ ~gpuEnabled

\* C15: a start with no device enabled, or with a wallet that has reached the
\* limit, leaves the session idle and changes no session field, log or timer: it
\* shows a toast and nothing else.  No step takes the session from idle to
\* mining in either case.
C15_StartRejected ==
    [][/\ (startMining /\ (hasReachedLimit \/ NoDevice)) =>
             /\ miningState' = "idle"
             /\ UNCHANGED <<SessionFields, timer, hashRate, showStopWarning>>
             /\ toast' = IF hasReachedLimit THEN "Limit Reached" ELSE "No Mining Device"
       /\ StartStep => (~hasReachedLimit /\ ~NoDevice)]_vars

\* The start of a wallet at the limit, with no device enabled, has been refused.
C15_Witness ==
    /\ miningState = "idle"
    /\ toast = "Limit Reached"
    /\ hasReachedLimit
    /\ NoDevice

\* A start with no device enabled has been refused.
C15_WitnessNoDevice ==
    /\ miningState = "idle"
    /\ toast = "No Mining Device"
    /\ ~hasReachedLimit
    /\ NoDevice

StartMessages == <<"info", "info", "info">>

\* C16: a start that is not refused takes the session from idle to mining with
\* progress 0, reward 0, 600000 ms left, paused snapshot 0, counters 0, the
\* share gate off and a log holding only the three start messages, and arms the
\* timers from the current instant; the first tick of the new session, elapsed
\* ms after the start, then sets progress to elapsed and, when it comes on time,
\* finds the reward still 0.
C16_StartResetsSession ==
    [][/\ (startMining /\ ~hasReachedLimit /\ ~NoDevice) =>
             /\ miningState = "idle"
             /\ miningState' = "mining"
             /\ progress' = 0
             /\ displayedReward' = 0
             /\ timeLeft' = SessionMs
             /\ pausedProgress' = 0
             /\ pausedTimeLeft' = 0
             /\ miningLogs' = StartMessages
             /\ blocksFound' = 0
             /\ sharesFound' = 0
             /\ ~canFindShares'
             /\ timer'.tickOn
             /\ timer'.logOn
             /\ timer'.startTime = clientNow
             /\ timer'.initialProgress = 0
             /\ timer'.endTime = clientNow + SessionMs
       /\ (FirstTickStep /\ pausedTimeLeft = 0) =>
             LET elapsed == clientNow - timer.startTime
             IN  /\ progress' = Min(Hundred, elapsed)
                 /\ timeLeft' = SessionMs - Min(SessionMs, elapsed)
                 /\ (elapsed <= TickMs) =>
                        /\ progress' = TickMs
                        /\ miningState' = "mining"
                        /\ displayedReward' = 0
                        /\ blocksFound' = 0
                        /\ sharesFound' = 0]_vars

\* The first tick of a session started after an earlier session was completed
\* and claimed has run on time.
C16_Witness ==
    /\ miningState = "mining"
    /\ Len(reported) > 0
    /\ pausedTimeLeft = 0
    /\ progress = TickMs
    /\ timeLeft = SessionMs - TickMs
    /\ displayedReward = 0
    /\ clientNow = timer.startTime + TickMs

\* The entries reported for transaction h.
ReportsOf(h) == {i \in 1..Len(reported) : reported[i].transactionHash = h}

\* In the step where the receipt of the followed transaction arrives while a
\* wallet is connected, the session goes to idle and one entry is reported.
ConfirmationStepReportsOnce ==
    [][(TxConfirmed /\ isConnected) =>
          /\ miningState' = "idle"
          /\ displayedReward' = 0
          /\ reported' = Append(reported, [walletAddress |-> address,
                                           amount |-> "200.000000",
                                           transactionHash |-> hash])]_vars

\* C17: every reported entry has amount "200.000000" and is the only entry
\* reported for its transaction hash, and once the claim transaction the client
\* follows is confirmed exactly one entry has been reported for it.
C17_ConfirmedClaimReportedOnce ==
    /\ \A i \in 1..Len(reported) :
          /\ reported[i].amount = "200.000000"
          /\ Cardinality(ReportsOf(reported[i].transactionHash)) = 1
    /\ (isConfirmed /\ hash # NoHash) => Cardinality(ReportsOf(hash)) = 1

ClaimFailureStep == WalletRejects \/ TxFails

\* A failed claim changes neither the session nor the reports, and the claim
\* button is enabled again; a rejection by the wallet is shown as a toast.
FailureKeepsSession ==
    [][/\ ClaimFailureStep =>
             /\ UNCHANGED <<SessionFields, timer, reported>>
             /\ ~isConfirming'
       /\ WalletRejects => toast' = "Claim Failed"]_vars

\* C18: when the wallet rejects the claim or its transaction reverts, the
\* session and its reward stay as they are, nothing is reported, and the user
\* is shown the failure.
C18_ClaimFailureSurfaced ==
    [][ClaimFailureStep =>
          /\ miningState' = miningState
          /\ displayedReward' = displayedReward
          /\ reported' = reported
          /\ toast' = "Claim Failed"]_vars

\* Claim transactions requested and neither confirmed nor failed: the requests
\* the hook no longer follows, and the one it follows while its prompt is open
\* or its receipt is awaited.
OutstandingClaims ==
    superseded + (IF writeStatus = "pending" \/ isConfirming THEN 1 ELSE 0)

\* C19: at most one claim transaction is outstanding at any time.
C19_OneClaimInFlight == OutstandingClaims <= 1

\* Every "share" line of the log has a "block" line before it.
ShareAfterBlock ==
    \A i \in 1..Len(miningLogs) :
        miningLogs[i] = "share" => \E j \in 1..(i - 1) : miningLogs[j] = "block"

ShareLogs(logs) == Cardinality({i \in 1..Len(logs) : logs[i] = "share"})

PauseStep == miningState = "mining" /\ miningState' = "paused"
ResumeStep == miningState = "paused" /\ miningState' = "mining"

\* C20: a "share" line is logged only while the gate is on, and the gate is on
\* only if a block was found since the last start, so every "share" line of a
\* session's log comes after a "block" line; a start, a confirmed stop and a
\* claim confirmation leave the gate off, and a pause or a resume leaves it as
\* it was.
C20_ShareOnlyAfterBlock ==
    /\ [](ShareAfterBlock /\ (canFindShares => blocksFound > 0))
    /\ [][/\ (sharesFound' > sharesFound \/ ShareLogs(miningLogs') > ShareLogs(miningLogs)) =>
                /\ canFindShares
                /\ blocksFound > 0
                /\ miningState = "mining"
                /\ sharesFound' = sharesFound + 1
                /\ miningLogs' = Append(miningLogs, "share")
          /\ (StartStep \/ confirmStop \/ ClaimConfirmationStep) => ~canFindShares'
          /\ (PauseStep \/ ResumeStep) => canFindShares' = canFindShares]_vars

\* A share has been logged after a block; the gate is on.
C20_Witness ==
    /\ miningState = "mining"
    /\ canFindShares
    /\ Len(miningLogs) > 0
    /\ miningLogs[Len(miningLogs)] = "share"
    /\ sharesFound = 1
    /\ blocksFound = 1

\* The gate is still on in a session that was paused after a block.
C20_WitnessPaused ==
    /\ miningState = "paused"
    /\ canFindShares
    /\ blocksFound > 0

\* min(200, progress / 100 * 200) in thirds of a USDC, times 1000: progress is in
\* 1/6000 percent, so one third of a USDC is 1000 units of progress.
RewardOfProgressTimes1000(p) == Min(1000 * Reward(200), p)

\* C21: in every state the reward shown is min(200, progress / 100 * 200).
C21_RewardIsFunctionOfProgress ==
    1000 * displayedReward = RewardOfProgressTimes1000(progress)

\* C22: while the session is mining or paused at least one device is enabled,
\* no step changes cpuEnabled or gpuEnabled, and the running timers use the hash
\* rate range of the selection the session has.
C22_DevicesLockedWhileRunning ==
    /\ [](devicesLocked => ~NoDevice)
    /\ [](timer.tickOn => timer.range = getHashRateRange(cpuEnabled, gpuEnabled))
    /\ [][devicesLocked => UNCHANGED <<cpuEnabled, gpuEnabled>>]_vars

\* A session runs on a selection that was changed before its start: GPU only.
C22_Witness ==
    /\ miningState = "paused"
    /\ progress > 0
    /\ gpuEnabled
    /\ ~cpuEnabled

\* The intervals of the two timer records are the same two intervals: the same
\* effect run made them, and only their next due times may differ.
SameIntervals(t1, t2) ==
    [t1 EXCEPT !.tickDue = 0, !.logDue = 0] = [t2 EXCEPT !.tickDue = 0, !.logDue = 0]

\* C23: the progress timer and the log timer are set exactly while the session
\* is mining; they fire only in mining; a step into mining sets them when none
\* is set, a step that stays in mining keeps the same two, and a step out of
\* mining (pause, confirmed stop, completion, claim reset) clears both.
C23_TimersOnlyWhileMining ==
    /\ [](timer.tickOn <=> miningState = "mining")
    /\ [](timer.logOn <=> miningState = "mining")
    /\ [](miningState # "mining" => timer = NoTimer)
    /\ [][/\ (Tick \/ LogTick) => miningState = "mining"
          /\ (miningState # "mining" /\ miningState' = "mining") =>
                /\ timer = NoTimer
                /\ timer'.tickOn
                /\ timer'.logOn
                /\ timer'.startTime = clientNow
          /\ (miningState = "mining" /\ miningState' = "mining") =>
                SameIntervals(timer, timer')
          /\ (miningState = "mining" /\ miningState' # "mining") =>
                timer' = NoTimer]_vars

\* A session whose two timers have both fired has been paused: none is set.
C23_Witness ==
    /\ miningState = "paused"
    /\ progress > 0
    /\ blocksFound > 0
    /\ timer = NoTimer

\* The handler changes the state or a session field when it runs now.
PauseChangesSession ==
    ENABLED (pauseMiningBody /\ UNCHANGED serverVars /\ ~UNCHANGED SessionFields)
ResumeChangesSession ==
    ENABLED (continueMiningBody /\ UNCHANGED serverVars /\ ~UNCHANGED SessionFields)
StartChangesSession ==
    ENABLED (startMiningBody /\ UNCHANGED serverVars /\ ~UNCHANGED SessionFields)
\* The handler changes the session or asks the wallet for a claim transaction.
ClaimChangesSessionOrRequests ==
    ENABLED (handleClaimBody /\ UNCHANGED <<serverVars, app0>>
                /\ ~UNCHANGED <<SessionFields, writeStatus, superseded>>)

\* C24: in every state, a handler that runs in a state it is not valid in
\* changes nothing: pause outside mining, resume outside paused and start
\* outside idle change neither the state nor a session field, and claim outside
\* completed changes neither and requests no transaction.
C24_InvalidOperationRejected ==
    /\ miningState # "mining" => ~PauseChangesSession
    /\ miningState # "paused" => ~ResumeChangesSession
    /\ miningState # "idle" => ~StartChangesSession
    /\ miningState # "completed" => ~ClaimChangesSessionOrRequests

\* Each of the four on its own.
PauseRejectedOutsideMining == miningState # "mining" => ~PauseChangesSession
ResumeRejectedOutsidePaused == miningState # "paused" => ~ResumeChangesSession
StartRejectedOutsideIdle == miningState # "idle" => ~StartChangesSession
ClaimRejectedOutsideCompleted == miningState # "completed" => ~ClaimChangesSessionOrRequests

\* C25: a confirmed stop is taken only from mining or paused, and a completed
\* session keeps its state and its reward in every step but the confirmation of
\* a claim.
C25_StopOnlyFromRunning ==
    [][/\ confirmStop => miningState \in {"mining", "paused"}
       /\ (miningState = "completed" /\ ~ClaimConfirmationStep) =>
             /\ miningState' = "completed"
             /\ displayedReward' = displayedReward]_vars

\* BigInt(tx.value) throws: the record has no value, or its text is no integer.
ValueUnparsable(tx) == "value" \notin DOMAIN tx \/ ~BigIntParses(tx.value)

\* The feed of the answered request without the records whose value does not
\* parse.
FeedWithoutUnparsable ==
    [req.feed EXCEPT !.data.result.items =
        SelectSeq(@, LAMBDA tx : ~ValueUnparsable(tx))]

\* C26: the records of the feed whose value does not parse as an integer count
\* for nothing: GET /claim-history and GET /total-claimed answer as they would
\* for the same feed without these records, so the other records are returned
\* and counted, from the feed, exactly as if the unparsable ones were not there.
C26_UnparsableValueExcluded ==
    /\ (AnsweredHistory /\ FeedHasStatusOne) =>
           resp = HistoryResponse(claimHistory, FeedWithoutUnparsable)
    /\ (AnsweredTotal /\ FeedHasStatusOne) =>
           resp = TotalResponse(FeedWithoutUnparsable)

\* A feed of one claim and one record with value "2e8" was answered from the
\* feed with the entry of the claim.
C26_Witness ==
    /\ AnsweredHistory
    /\ FeedHasStatusOne
    /\ Len(req.feed.data.result.items) = 2
    /\ ValueUnparsable(req.feed.data.result.items[2])
    /\ resp.source = "feed"
    /\ Len(resp.body) = 1
    /\ resp.body[1].transactionHash = req.feed.data.result.items[1].hash

\* The same feed was counted by GET /total-claimed.
C26_WitnessTotal ==
    /\ AnsweredTotal
    /\ FeedHasStatusOne
    /\ Len(req.feed.data.result.items) = 2
    /\ ValueUnparsable(req.feed.data.result.items[2])
    /\ resp.source = "feed"
    /\ resp.body.claimCount = 1

\* C27: every entry GET /claim-history returns from the feed has amount
\* "200.000000", and GET /total-claimed answers from the feed with totalClaimed
\* = 200 * claimCount.
C27_FeedAmountIsFixed ==
    /\ (AnsweredHistory /\ resp.source = "feed") =>
           \A j \in 1..Len(resp.body) : resp.body[j].amount = "200.000000"
    /\ (AnsweredTotal /\ resp.source = "feed") =>
           resp.body.totalClaimed = ToString(200 * resp.body.claimCount) \o ".00"

\* The part of C27 that holds: the same, for feeds whose filtered records all
\* give their decimals as 6 or leave them out.
DecimalsAreSix(feed) ==
    \A i \in 1..Len(feed.data.result.items) :
        LET tx == feed.data.result.items[i]
        IN  (~FilterThrows(tx) /\ IsFaucetClaim(tx)) => DecimalsText(tx) = "6"

FixedAmountWithSixDecimals ==
    /\ (AnsweredHistory /\ resp.source = "feed" /\ DecimalsAreSix(req.feed)) =>
           \A j \in 1..Len(resp.body) : resp.body[j].amount = "200.000000"
    /\ (AnsweredTotal /\ resp.source = "feed" /\ DecimalsAreSix(req.feed)) =>
           resp.body.totalClaimed = ToString(200 * resp.body.claimCount) \o ".00"

\* The number of millionths a text of the form d+.dddddd stands for.
FixedSixToMicro(s) ==
    LET dot == IndexOf(s, ".")
    IN  DigitsToInt(SubSeq(s, 1, dot - 1), 0) * Pow10(6)
            + DigitsToInt(SubSeq(s, dot + 1, Len(s)), 0)

\* The milliseconds since midnight a text 1970-01-01Thh:mm:ss.fffZ stands for.
IsoToMs(s) ==
    DigitsToInt(SubSeq(s, 12, 13), 0) * 3600000
        + DigitsToInt(SubSeq(s, 15, 16), 0) * 60000
        + DigitsToInt(SubSeq(s, 18, 19), 0) * 1000
        + DigitsToInt(SubSeq(s, 21, 23), 0)

\* The entry is the mapping of the transfer.
EntryIsOf(entry, tx) ==
    LET decimals == DigitsToInt(DecimalsText(tx), 0)
    IN  /\ DOMAIN entry = EntryFields
        /\ entry.transactionHash = tx.hash
        /\ Len(entry.id) = Min(8, Len(tx.hash))
        /\ entry.id = SubSeq(tx.hash, 1, Len(entry.id))
        /\ entry.walletAddress = tx.to
        /\ IsDigits(DecimalsText(tx)) =>
               /\ Len(entry.amount) - IndexOf(entry.amount, ".") = 6
               /\ FixedSixToMicro(entry.amount) * Pow10(decimals - 6)
                      = DigitsToInt(tx.value, 0)
        /\ Len(entry.claimedAt) = 24
        /\ IsoToMs(entry.claimedAt) = 1000 * DigitsToInt(tx.timeStamp, 0)

\* C28: GET /claim-history answered from the feed returns one entry per transfer
\* that passes the filter, in the order of the feed, with id the first 8
\* characters of the hash, walletAddress the transfer's `to`, transactionHash the
\* hash, amount the value divided by 10^tokenDecimal with 6 fractional digits,
\* and claimedAt the instant of timeStamp * 1000 ms.
C28_TransferMappedToEntry ==
    (AnsweredHistory /\ resp.source = "feed") =>
        LET passed == SelectSeq(req.feed.data.result.items, IsFaucetClaim)
        IN  /\ Len(resp.body) = Len(passed)
            /\ \A j \in 1..Len(passed) : EntryIsOf(resp.body[j], passed[j])

\* Two claims of the feed were returned in the feed's order; the second, of
\* second 3725, has a 7-character hash and no tokenDecimal.
C28_Witness ==
    /\ AnsweredHistory
    /\ resp.source = "feed"
    /\ Len(resp.body) = 2
    /\ resp.body[1] = [id |-> "0x9f3c7a", walletAddress |-> WalletA,
                       amount |-> "200.000000", transactionHash |-> "0x9f3c7a1be2",
                       claimedAt |-> "1970-01-01T00:00:17.000Z"]
    /\ resp.body[2] = [id |-> "0x4410d", walletAddress |-> WalletB,
                       amount |-> "200.000000", transactionHash |-> "0x4410d",
                       claimedAt |-> "1970-01-01T01:02:05.000Z"]

\* The number of millionths a text of the form d+.dd stands for.
FixedTwoToMicro(s) ==
    LET dot == IndexOf(s, ".")
    IN  DigitsToInt(SubSeq(s, 1, dot - 1), 0) * Pow10(6)
            + DigitsToInt(SubSeq(s, dot + 1, Len(s)), 0) * Pow10(4)

\* The sum of the amounts of a list of entries, in millionths.
RECURSIVE SumAmounts(_)
SumAmounts(entries) ==
    IF entries = <<>> THEN 0
    ELSE FixedSixToMicro(Head(entries).amount) + SumAmounts(Tail(entries))

\* The amount rounded to hundredths, in millionths.
RoundToCents(micro) == ((micro + 5000) \div 10000) * 10000

\* C29: GET /total-claimed answered from the feed counts exactly the records
\* sent by the faucet, on the token, with value 200 * 10^6, and whenever GET
\* /claim-history answers the same feed content from the feed, claimCount is the
\* number of its entries and totalClaimed is the sum of their amounts.
C29_TotalMatchesHistory ==
    (AnsweredTotal /\ resp.source = "feed") =>
        LET items == req.feed.data.result.items
            history == HistoryResponse(claimHistory, req.feed)
        IN  /\ resp.body.claimCount = Len(SelectSeq(items, MatchesClaimSignature))
            /\ history.source = "feed" =>
                  /\ resp.body.claimCount = Len(history.body)
                  /\ IF \E j \in 1..Len(history.body) : history.body[j].amount = "NaN"
                     THEN resp.body.totalClaimed = "NaN"
                     ELSE FixedTwoToMicro(resp.body.totalClaimed)
                              = RoundToCents(SumAmounts(history.body))

\* A feed of two claims and of scaled amounts 200 and 2 was counted.
C29_Witness ==
    /\ AnsweredTotal
    /\ resp.source = "feed"
    /\ resp.body = [totalClaimed |-> "202.00", claimCount |-> 2]

\* A POST /api/claim-history that is answered with the recorded claim.
RecordedStep == PostClaimHistory /\ resp'.status = 200

\* C30: a successful POST /claim-history appends exactly one entry to the
\* storage and leaves the stored entries as they were; the entry has a new id,
\* the body's walletAddress and amount, the body's transactionHash or null
\* without one, and the current time as claimedAt; the response is that entry;
\* no feed request is made or touched.  Nothing else changes the storage.
C30_RecordAppendsOneEntry ==
    [][/\ RecordedStep =>
             LET n == Len(claimHistory)
                 e == claimHistory'[n + 1]
                 body == req'.body
             IN  /\ Len(claimHistory') = n + 1
                 /\ SubSeq(claimHistory', 1, n) = claimHistory
                 /\ e.id \notin StoredIds
                 /\ e.walletAddress = body.walletAddress
                 /\ e.amount = body.amount
                 /\ e.transactionHash =
                        (IF "transactionHash" \in DOMAIN body
                         THEN body.transactionHash ELSE Null)
                 /\ e.claimedAt = serverClock
                 /\ resp'.body = e
                 /\ ~resp'.fetched
                 /\ pending' = pending
       /\ claimHistory' # claimHistory => RecordedStep]_vars

\* A claim without a transaction hash was recorded at time 1 after a claim
\* recorded at time 0, while a feed request was in flight.
C30_Witness ==
    /\ req.route = PostRoute
    /\ "transactionHash" \notin DOMAIN req.body
    /\ pending # "none"
    /\ Len(claimHistory) = 2
    /\ claimHistory[1].claimedAt = 0
    /\ claimHistory[2].claimedAt = 1
    /\ claimHistory[2].transactionHash = Null
    /\ claimHistory[2].id # claimHistory[1].id
    /\ resp.body = claimHistory[2]

ReadStep == RequestFeed \/ GetHistory \/ GetTotalClaimed \/ GetWalletHistory

\* C31: no step of GET /claim-history, GET /claim-history/:walletAddress or GET
\* /total-claimed changes the local storage, whatever the feed gives, and every
\* stored entry has the id its POST gave it: no entry derived from the feed is
\* ever stored.
C31_ReadsNeverWrite ==
    /\ [](\A i \in 1..Len(claimHistory) : claimHistory[i].id = "uuid-" \o ToString(i))
    /\ [][ReadStep => claimHistory' = claimHistory]_vars

\* GET /claim-history has answered with an entry of the feed while the storage
\* holds one recorded claim and nothing else.
C31_Witness ==
    /\ AnsweredHistory
    /\ resp.source = "feed"
    /\ Len(resp.body) = 1
    /\ Len(claimHistory) = 1
    /\ claimHistory[1].transactionHash # resp.body[1].transactionHash

\* C32: every step of the log timer, whatever event it draws, leaves the session
\* state, progress, the time remaining, the paused snapshot and the session
\* reward as they were.
C32_LogTimerIsCosmetic ==
    [][LogTick => UNCHANGED <<miningState, progress, timeLeft, pausedProgress,
                              pausedTimeLeft, displayedReward>>]_vars

\* What the log timer does leave alone: everything of the session but the reward.
LogTimerKeepsProgress ==
    [][LogTick => UNCHANGED <<miningState, progress, timeLeft, pausedProgress,
                              pausedTimeLeft, hashRate>>]_vars

\* C33: in every reachable state progress is between 0 and 100 %, the time
\* remaining between 0 and 600000 ms and the reward between 0 and 200 USDC; a
\* completed session has progress 100 % and reward 200, an idle one progress 0
\* and reward 0.
C33_SessionRanges ==
    /\ progress \in 0..Hundred
    /\ timeLeft \in 0..SessionMs
    /\ displayedReward \in 0..Reward(200)
    /\ miningState = "completed" => progress = Hundred /\ displayedReward = Reward(200)
    /\ miningState = "idle" => progress = 0 /\ displayedReward = 0

\* A session that earned shares on the way has completed.
C33_Witness ==
    /\ miningState = "completed"
    /\ sharesFound > 0
    /\ progress = Hundred
    /\ displayedReward = Reward(200)
    /\ timeLeft = 0

\* A session that had earned a share was stopped: idle again, at 0.
C33_WitnessStopped ==
    /\ miningState = "idle"
    /\ toast = "Mining Stopped"
    /\ progress = 0
    /\ displayedReward = 0
    /\ timeLeft = SessionMs

\* The claimable state is entered by a tick of a mining session that finds no
\* time remaining, and by nothing else.
ClaimableOnlyWhenMined ==
    /\ (miningState # "completed" /\ miningState' = "completed") =>
          /\ miningState = "mining"
          /\ timeLeft' = 0
          /\ progress' = Hundred
    /\ (app0.miningState # "ready" /\ app0'.miningState = "ready") =>
          /\ app0.miningState = "mining"
          /\ app0'.timeLeft = 0
          /\ app0'.progress = Hundred

AmountsReported ==
    {reported[i].amount : i \in 1..Len(reported)}
        \cup {app0.reported[i].amount : i \in 1..Len(app0.reported)}

\* C34: the claimable state, completed in one App component and ready in the
\* other, is entered only by a tick that finds the time remaining at 0, with
\* progress 100, never from paused or part way; and every entry the client
\* reports has the amount "200.000000".
C34_OnlyFullSessionClaims ==
    /\ [](AmountsReported \subseteq {"200.000000"})
    /\ [][ClaimableOnlyWhenMined]_vars

\* The part of C34 about the component with the stop warning.
FullSessionClaimsWithStopWarning ==
    /\ [](\A i \in 1..Len(reported) : reported[i].amount = "200.000000")
    /\ [][(miningState # "completed" /\ miningState' = "completed") =>
             /\ miningState = "mining"
             /\ timeLeft' = 0
             /\ progress' = Hundred]_vars

\* Every entry the component with the pause dialog reports is a full reward.
PauseDialogReportsFullReward ==
    \A i \in 1..Len(app0.reported) : app0.reported[i].amount = "200.000000"

\* C35: ticks and pauses are steps of one event queue, so a pause takes the
\* progress and the time remaining that the last tick wrote together: the
\* snapshot is the progress and the time remaining the session holds while
\* paused, and pausedProgress is the share of the session that pausedTimeLeft
\* leaves mined, (600000 - pausedTimeLeft) / 600000 * 100.
C35_PauseSnapshotConsistent ==
    /\ [](miningState \in {"mining", "paused"} => progress = SessionMs - timeLeft)
    /\ [](miningState = "paused" =>
             /\ pausedProgress = SessionMs - pausedTimeLeft
             /\ pausedProgress = progress
             /\ pausedTimeLeft = timeLeft)
    /\ [][PauseStep => pausedProgress' = progress /\ pausedTimeLeft' = timeLeft]_vars

\* A session paused part way, for the second time or after a late first tick.
C35_Witness ==
    /\ miningState = "paused"
    /\ pausedProgress > TickMs
    /\ pausedTimeLeft > 0
    /\ pausedProgress = progress
    /\ pausedTimeLeft = SessionMs - pausedProgress

\* C36: no two reported entries have the same transaction hash, every entry is
\* reported with the address of the wallet that signed its transaction, and a
\* change of the connected address reports nothing.
C36_OneEntryPerHashFromSigner ==
    /\ [](\A i, j \in 1..Len(reported) :
              reported[i].transactionHash = reported[j].transactionHash => i = j)
    /\ [][Len(reported') > Len(reported) =>
              reported'[Len(reported')].walletAddress = txFrom']_vars
    /\ [][AccountChanges => reported' = reported]_vars

\* C37: a session leaves mining or paused for idle only by a confirmed stop, and
\* while it is mining or paused its progress falls only by a confirmed stop:
\* the confirmation of a claim resets a completed session and no other.
C37_ClaimResetOnlyOfCompleted ==
    [][(miningState = "mining" \/ miningState = "paused") =>
          /\ (miningState' = "idle" => ConfirmedStopStep)
          /\ (progress' < progress => ConfirmedStopStep)]_vars

\* C38: whenever the session is idle, its fields have the values they had at
\* the start: progress 0, reward 0, 600000 ms remaining, the paused snapshot 0,
\* an empty log, both counters 0 and the share gate off.
C38_IdleIsInitial ==
    miningState = "idle" =>
        /\ progress = 0
        /\ displayedReward = 0
        /\ timeLeft = SessionMs
        /\ pausedProgress = 0
        /\ pausedTimeLeft = 0
        /\ miningLogs = <<>>
        /\ blocksFound = 0
        /\ sharesFound = 0
        /\ ~canFindShares

\* The same without the time remaining.
IdleIsInitialButTimeLeft ==
    miningState = "idle" =>
        /\ progress = 0
        /\ displayedReward = 0
        /\ pausedProgress = 0
        /\ pausedTimeLeft = 0
        /\ miningLogs = <<>>
        /\ blocksFound = 0
        /\ sharesFound = 0
        /\ ~canFindShares

\* The feed of the answered request without the records that do not pass the
\* filter.
FeedOfPassingRecords ==
    [req.feed EXCEPT !.data.result.items = SelectSeq(@, MatchesClaimSignature)]

\* C40: for a feed of status "1", GET /claim-history answers as it would for the
\* same feed without the records that do not pass the filter (wrong sender,
\* wrong token, wrong or unparsable value, missing fields): with the same
\* entries for the other records, and from the same source.
C40_FailingRecordChangesNothing ==
    (AnsweredHistory /\ FeedHasStatusOne) =>
        resp = HistoryResponse(claimHistory, FeedOfPassingRecords)

\* The same for the failing records that have a sender.
FailingRecordWithSenderChangesNothing ==
    (/\ AnsweredHistory
     /\ FeedHasStatusOne
     /\ \A tx \in Range(req.feed.data.result.items) : "from" \in DOMAIN tx) =>
        resp = HistoryResponse(claimHistory, FeedOfPassingRecords)

\* A record the handler cannot process: it lacks the sender, the hash or the
\* time stamp, or its time stamp is no number.
RecordMalformed(tx) ==
    \/ "from" \notin DOMAIN tx
    \/ "hash" \notin DOMAIN tx
    \/ "timeStamp" \notin DOMAIN tx
    \/ ~IsDigits(tx.timeStamp)

AnsweredFeedItems == IF FeedHasStatusOne THEN req.feed.data.result.items ELSE <<>>

\* The entries of the answer that are entries of the local storage, and those
\* that are made of a transfer of the feed.
LocalEntriesReturned == {e \in Range(resp.body) : e \in Range(claimHistory)}

FeedEntriesReturned ==
    {e \in Range(resp.body) :
        \E tx \in Range(AnsweredFeedItems) :
            /\ "hash" \in DOMAIN tx
            /\ e.transactionHash = tx.hash
            /\ e.id = SliceTo(tx.hash, 8)}

C39_WitnessLocal ==
    /\ AnsweredHistory
    /\ req.feed.kind = "network_error"
    /\ LocalEntriesReturned # {}
    /\ FeedEntriesReturned = {}

====
